---- MODULE Spec2Model ----
(***************************************************************************)
(* NTAG424 DNA Secure Dynamic Messaging (SDM) authentication.              *)
(*                                                                         *)
(* Byte buffers are sequences of integers 0..255.  JavaScript strings are  *)
(* sequences of one-character strings.  A value that may be null or        *)
(* undefined is None or Some(v).  A function that may throw returns        *)
(* Return(v) or Throw(message).                                            *)
(***************************************************************************)
EXTENDS Integers, Sequences, FiniteSets, TLC

None == [some |-> FALSE]
Some(v) == [some |-> TRUE, val |-> v]

Return(v) == [threw |-> FALSE, val |-> v]
Throw(msg) == [threw |-> TRUE, message |-> msg]

(* The element of a one-element set.  Only({ F(x) : x \in {e} }) is F(e)  *)
(* with e evaluated once, however often F uses it: a local constant of the *)
(* source is bound this way.                                               *)
Only(S) == CHOOSE x \in S : TRUE

RECURSIVE ToSeq(_, _)
ToSeq(f, n) == IF n = 0 THEN <<>> ELSE Append(ToSeq(f, n - 1), f[n])

(* Buffer.alloc(n): n zero bytes. *)
BufferAlloc(n) == ToSeq([i \in 1..n |-> 0], n)

(* buf.slice(from, to), 0-based, end exclusive, clamped to the buffer. *)
BufferSlice(buf, from, to) ==
  LET lo == IF from > Len(buf) THEN Len(buf) ELSE from
      hi == IF to > Len(buf) THEN Len(buf) ELSE to
  IN IF hi <= lo THEN <<>> ELSE SubSeq(buf, lo + 1, hi)

(* buf[i] for a 0-based index, None where JavaScript reads undefined. *)
BufferAt(buf, i) == IF i >= 0 /\ i < Len(buf) THEN Some(buf[i + 1]) ELSE None

(***************************************************************************)
(* Bitwise operations on bytes.                                            *)
(***************************************************************************)
XorNibble ==
  <<
    0, 1, 2, 3, 4, 5, 6, 7, 8, 9, 10, 11, 12, 13, 14, 15,
    1, 0, 3, 2, 5, 4, 7, 6, 9, 8, 11, 10, 13, 12, 15, 14,
    2, 3, 0, 1, 6, 7, 4, 5, 10, 11, 8, 9, 14, 15, 12, 13,
    3, 2, 1, 0, 7, 6, 5, 4, 11, 10, 9, 8, 15, 14, 13, 12,
    4, 5, 6, 7, 0, 1, 2, 3, 12, 13, 14, 15, 8, 9, 10, 11,
    5, 4, 7, 6, 1, 0, 3, 2, 13, 12, 15, 14, 9, 8, 11, 10,
    6, 7, 4, 5, 2, 3, 0, 1, 14, 15, 12, 13, 10, 11, 8, 9,
    7, 6, 5, 4, 3, 2, 1, 0, 15, 14, 13, 12, 11, 10, 9, 8,
    8, 9, 10, 11, 12, 13, 14, 15, 0, 1, 2, 3, 4, 5, 6, 7,
    9, 8, 11, 10, 13, 12, 15, 14, 1, 0, 3, 2, 5, 4, 7, 6,
    10, 11, 8, 9, 14, 15, 12, 13, 2, 3, 0, 1, 6, 7, 4, 5,
    11, 10, 9, 8, 15, 14, 13, 12, 3, 2, 1, 0, 7, 6, 5, 4,
    12, 13, 14, 15, 8, 9, 10, 11, 4, 5, 6, 7, 0, 1, 2, 3,
    13, 12, 15, 14, 9, 8, 11, 10, 5, 4, 7, 6, 1, 0, 3, 2,
    14, 15, 12, 13, 10, 11, 8, 9, 6, 7, 4, 5, 2, 3, 0, 1,
    15, 14, 13, 12, 11, 10, 9, 8, 7, 6, 5, 4, 3, 2, 1, 0
  >>

(* a ^ b on bytes. *)
BXor(a, b) ==
  Only({ 16 * XorNibble[(x \div 16) * 16 + (y \div 16) + 1]
           + XorNibble[(x % 16) * 16 + (y % 16) + 1] : x \in {a}, y \in {b} })

(***************************************************************************)
(* The block cipher of the crypto library: AES-128 (FIPS 197) on one       *)
(* 16-byte block, the state held column by column.                         *)
(***************************************************************************)
SBox ==
  <<
    99, 124, 119, 123, 242, 107, 111, 197, 48, 1, 103, 43, 254, 215, 171, 118,
    202, 130, 201, 125, 250, 89, 71, 240, 173, 212, 162, 175, 156, 164, 114, 192,
    183, 253, 147, 38, 54, 63, 247, 204, 52, 165, 229, 241, 113, 216, 49, 21,
    4, 199, 35, 195, 24, 150, 5, 154, 7, 18, 128, 226, 235, 39, 178, 117,
    9, 131, 44, 26, 27, 110, 90, 160, 82, 59, 214, 179, 41, 227, 47, 132,
    83, 209, 0, 237, 32, 252, 177, 91, 106, 203, 190, 57, 74, 76, 88, 207,
    208, 239, 170, 251, 67, 77, 51, 133, 69, 249, 2, 127, 80, 60, 159, 168,
    81, 163, 64, 143, 146, 157, 56, 245, 188, 182, 218, 33, 16, 255, 243, 210,
    205, 12, 19, 236, 95, 151, 68, 23, 196, 167, 126, 61, 100, 93, 25, 115,
    96, 129, 79, 220, 34, 42, 144, 136, 70, 238, 184, 20, 222, 94, 11, 219,
    224, 50, 58, 10, 73, 6, 36, 92, 194, 211, 172, 98, 145, 149, 228, 121,
    231, 200, 55, 109, 141, 213, 78, 169, 108, 86, 244, 234, 101, 122, 174, 8,
    186, 120, 37, 46, 28, 166, 180, 198, 232, 221, 116, 31, 75, 189, 139, 138,
    112, 62, 181, 102, 72, 3, 246, 14, 97, 53, 87, 185, 134, 193, 29, 158,
    225, 248, 152, 17, 105, 217, 142, 148, 155, 30, 135, 233, 206, 85, 40, 223,
    140, 161, 137, 13, 191, 230, 66, 104, 65, 153, 45, 15, 176, 84, 187, 22
  >>

InvSBox ==
  <<
    82, 9, 106, 213, 48, 54, 165, 56, 191, 64, 163, 158, 129, 243, 215, 251,
    124, 227, 57, 130, 155, 47, 255, 135, 52, 142, 67, 68, 196, 222, 233, 203,
    84, 123, 148, 50, 166, 194, 35, 61, 238, 76, 149, 11, 66, 250, 195, 78,
    8, 46, 161, 102, 40, 217, 36, 178, 118, 91, 162, 73, 109, 139, 209, 37,
    114, 248, 246, 100, 134, 104, 152, 22, 212, 164, 92, 204, 93, 101, 182, 146,
    108, 112, 72, 80, 253, 237, 185, 218, 94, 21, 70, 87, 167, 141, 157, 132,
    144, 216, 171, 0, 140, 188, 211, 10, 247, 228, 88, 5, 184, 179, 69, 6,
    208, 44, 30, 143, 202, 63, 15, 2, 193, 175, 189, 3, 1, 19, 138, 107,
    58, 145, 17, 65, 79, 103, 220, 234, 151, 242, 207, 206, 240, 180, 230, 115,
    150, 172, 116, 34, 231, 173, 53, 133, 226, 249, 55, 232, 28, 117, 223, 110,
    71, 241, 26, 113, 29, 41, 197, 137, 111, 183, 98, 14, 170, 24, 190, 27,
    252, 86, 62, 75, 198, 210, 121, 32, 154, 219, 192, 254, 120, 205, 90, 244,
    31, 221, 168, 51, 136, 7, 199, 49, 177, 18, 16, 89, 39, 128, 236, 95,
    96, 81, 127, 169, 25, 181, 74, 13, 45, 229, 122, 159, 147, 201, 156, 239,
    160, 224, 59, 77, 174, 42, 245, 176, 200, 235, 187, 60, 131, 83, 153, 97,
    23, 43, 4, 126, 186, 119, 214, 38, 225, 105, 20, 99, 85, 33, 12, 125
  >>

ShiftRowsSrc == <<1, 6, 11, 16, 5, 10, 15, 4, 9, 14, 3, 8, 13, 2, 7, 12>>
InvShiftRowsSrc == <<1, 14, 11, 8, 5, 2, 15, 12, 9, 6, 3, 16, 13, 10, 7, 4>>
Rcon == <<1, 2, 4, 8, 16, 32, 64, 128, 27, 54>>

Blk(f) ==
  << f[1], f[2], f[3], f[4], f[5], f[6], f[7], f[8],
     f[9], f[10], f[11], f[12], f[13], f[14], f[15], f[16] >>

XTime(a) == Only({ IF x >= 128 THEN BXor((2 * x) % 256, 27) ELSE 2 * x : x \in {a} })

AddRoundKey(s, rk) ==
  Only({ Blk([i \in 1..16 |-> BXor(t[i], k[i])]) : t \in {s}, k \in {rk} })
SubShift(s) ==
  Only({ Blk([i \in 1..16 |-> SBox[t[ShiftRowsSrc[i]] + 1]]) : t \in {s} })
InvSubShift(s) ==
  Only({ Blk([i \in 1..16 |-> InvSBox[t[InvShiftRowsSrc[i]] + 1]]) : t \in {s} })

MixByte(s, i) ==
  LET c == 4 * ((i - 1) \div 4)
      r == (i - 1) % 4
      a0 == s[c + r + 1]
      a1 == s[c + ((r + 1) % 4) + 1]
      a2 == s[c + ((r + 2) % 4) + 1]
      a3 == s[c + ((r + 3) % 4) + 1]
  IN BXor(BXor(XTime(a0), BXor(XTime(a1), a1)), BXor(a2, a3))
MixColumns(s) == Only({ Blk([i \in 1..16 |-> MixByte(t, i)]) : t \in {s} })

InvMixByte(s, i) ==
  LET c == 4 * ((i - 1) \div 4)
      r == (i - 1) % 4
      a0 == s[c + r + 1]
      a1 == s[c + ((r + 1) % 4) + 1]
      a2 == s[c + ((r + 2) % 4) + 1]
      a3 == s[c + ((r + 3) % 4) + 1]
      x2(a) == XTime(a)
      x4(a) == XTime(XTime(a))
      x8(a) == XTime(XTime(XTime(a)))
      m14 == BXor(x8(a0), BXor(x4(a0), x2(a0)))
      m11 == BXor(x8(a1), BXor(x2(a1), a1))
      m13 == BXor(x8(a2), BXor(x4(a2), a2))
      m9 == BXor(x8(a3), a3)
  IN BXor(BXor(m14, m11), BXor(m13, m9))
InvMixColumns(s) == Only({ Blk([i \in 1..16 |-> InvMixByte(t, i)]) : t \in {s} })

(* Word w of a round key XORed with the four bytes prev. *)
XorWord(rk, w, prev) ==
  << BXor(rk[4 * w + 1], prev[1]), BXor(rk[4 * w + 2], prev[2]),
     BXor(rk[4 * w + 3], prev[3]), BXor(rk[4 * w + 4], prev[4]) >>

NextRoundKey(rk, rc) ==
  Only({ Only({ Only({ t0 \o t1 \o t2 \o XorWord(rk, 3, t2) :
                       t2 \in { XorWord(rk, 2, t1) } }) :
                t1 \in { XorWord(rk, 1, t0) } }) :
         t0 \in { XorWord(rk, 0, << BXor(SBox[rk[14] + 1], rc), SBox[rk[15] + 1],
                                     SBox[rk[16] + 1], SBox[rk[13] + 1] >>) } })

RECURSIVE KeySchedule(_, _)
KeySchedule(rks, r) ==
  IF r > 10 THEN rks
  ELSE Only({ KeySchedule(next, r + 1) :
         next \in { Append(rks, NextRoundKey(rks[r], Rcon[r])) } })

RECURSIVE EncRounds(_, _, _)
EncRounds(s, rks, r) ==
  IF r = 10 THEN AddRoundKey(SubShift(s), rks[11])
  ELSE Only({ EncRounds(t, rks, r + 1) :
         t \in { AddRoundKey(MixColumns(SubShift(s)), rks[r + 1]) } })

AesEncryptBlock(key, blk) ==
  Only({ Only({ EncRounds(t, rks, 1) : t \in { AddRoundKey(blk, rks[1]) } }) :
         rks \in { KeySchedule(<<key>>, 1) } })

RECURSIVE DecRounds(_, _, _)
DecRounds(s, rks, r) ==
  IF r = 1 THEN AddRoundKey(InvSubShift(s), rks[1])
  ELSE Only({ DecRounds(t, rks, r - 1) :
         t \in { InvMixColumns(AddRoundKey(InvSubShift(s), rks[r])) } })

AesDecryptBlock(key, blk) ==
  Only({ Only({ DecRounds(t, rks, 10) : t \in { AddRoundKey(blk, rks[11]) } }) :
         rks \in { KeySchedule(<<key>>, 1) } })

AesBlockSize == 16
AesKeyLength == 16

RECURSIVE EcbBlocks(_, _, _, _)
EcbBlocks(key, data, encrypt, i) ==
  IF i * AesBlockSize >= Len(data) THEN <<>>
  ELSE Only({ out \o EcbBlocks(key, data, encrypt, i + 1) :
         out \in { LET blk == SubSeq(data, i * AesBlockSize + 1, (i + 1) * AesBlockSize)
            IN IF encrypt THEN AesEncryptBlock(key, blk) ELSE AesDecryptBlock(key, blk) } })

(* crypto.createCipheriv('aes-128-ecb', key, null), setAutoPadding(false),   *)
(* Buffer.concat([cipher.update(data), cipher.final()]): the constructor     *)
(* throws on a key that is not 16 bytes, final() on a trailing partial block *)
EcbNoPadding(key, data, encrypt) ==
  Only({ IF Len(k) # AesKeyLength THEN Throw("Invalid key length")
         ELSE IF Len(d) % AesBlockSize # 0 THEN Throw("wrong final block length")
         ELSE Return(EcbBlocks(k, d, encrypt, 0)) : k \in {key}, d \in {data} })

CipherEcb(key, data) == EcbNoPadding(key, data, TRUE)
DecipherEcb(key, data) == EcbNoPadding(key, data, FALSE)

(***************************************************************************)
(* utils/crypto: xor, shiftLeft, generateSubkeys, calculateCmac,           *)
(* truncateCmac.                                                           *)
(***************************************************************************)
Max(a, b) == IF a >= b THEN a ELSE b

(* x || 0 for a byte read that may be undefined. *)
OrZero(opt) == IF opt.some THEN opt.val ELSE 0

(* xor cut to the shorter of the two buffers. *)
xorOfShorter(bytes1, bytes2) ==
  Only({ LET n == IF Len(a) <= Len(b) THEN Len(a) ELSE Len(b)
         IN ToSeq([i \in 1..n |-> BXor(a[i], b[i])], n) :
         a \in {bytes1}, b \in {bytes2} })

xor(bytes1, bytes2) ==
  Only({ LET n == Max(Len(a), Len(b))
         IN ToSeq([i \in 1..n |-> BXor(OrZero(BufferAt(a, i - 1)),
                                       OrZero(BufferAt(b, i - 1)))], n) :
         a \in {bytes1}, b \in {bytes2} })

RECURSIVE shiftLeftLoop(_, _, _, _)
shiftLeftLoop(buffer, i, overflow, result) ==
  IF i < 0 THEN result
  ELSE LET byte == BufferAt(buffer, i)
       IN IF byte.some
          THEN Only({ shiftLeftLoop(buffer, i - 1, byte.val \div 128, r) :
                      r \in { [result EXCEPT ![i + 1] = (2 * byte.val + overflow) % 256] } })
          ELSE shiftLeftLoop(buffer, i - 1, overflow, result)

(* Each byte shifted on its own, no bit carried to the next byte. *)
shiftLeftNoCarry(buffer) ==
  Only({ ToSeq([i \in 1..Len(b) |-> (2 * b[i]) % 256], Len(b)) : b \in {buffer} })

shiftLeft(buffer) ==
  Only({ shiftLeftLoop(b, Len(b) - 1, 0, BufferAlloc(Len(b))) : b \in {buffer} })

(* rb = Buffer.alloc(16); rb[15] = 0x87 *)
Rb == [BufferAlloc(16) EXCEPT ![16] = 135]

(* l[0] !== undefined && (l[0] & 0x80) *)
TopBitSet(buf) == LET b == BufferAt(buf, 0) IN b.some /\ b.val >= 128

(* The shift alone, never reduced by rb. *)
NextSubkeyNoRb(prev) == shiftLeft(prev)

(* One subkey from the previous value: shiftLeft, then xor with rb if the *)
(* top bit of the previous value was set.                                 *)
NextSubkey(prev) ==
  Only({ IF TopBitSet(p) THEN xor(shiftLeft(p), Rb) ELSE shiftLeft(p) : p \in {prev} })

generateSubkeys(key) ==
  Only({ IF l.threw THEN l
         ELSE Only({ Return([k1 |-> k1, k2 |-> NextSubkey(k1)]) :
                     k1 \in { NextSubkey(l.val) } }) :
         l \in { CipherEcb(key, BufferAlloc(16)) } })

blockSize == 16

(* n = data.length === 0 ? 1 : Math.ceil(data.length / blockSize) *)
CmacBlockCount(data) ==
  IF Len(data) = 0 THEN 1 ELSE (Len(data) + blockSize - 1) \div blockSize

(* The length test alone, which takes empty data for a complete block. *)
lastBlockCompleteWhenEmpty(data) == Len(data) % blockSize = 0

lastBlockComplete(data) == Len(data) # 0 /\ Len(data) % blockSize = 0

(* The last block before it is XORed with a subkey. *)
CmacLastBlock(data) ==
  LET n == CmacBlockCount(data)
  IN IF lastBlockComplete(data)
     THEN LET startIndex == (n - 1) * blockSize
          IN BufferSlice(data, startIndex, startIndex + blockSize)
     ELSE LET startIndex == IF Len(data) = 0 THEN 0 ELSE (n - 1) * blockSize
              rem == IF Len(data) = 0 THEN 0 ELSE Len(data) - startIndex
              copied == BufferSlice(data, startIndex, startIndex + rem)
                          \o BufferAlloc(blockSize - rem)
          IN [copied EXCEPT ![rem + 1] = 128]

(* mLast = xor(lastBlock, lastBlockComplete ? k1 : k2) *)
CmacMLast(data, k1, k2) ==
  xor(CmacLastBlock(data), IF lastBlockComplete(data) THEN k1 ELSE k2)

(* The loop over the full blocks before the last: x = Encrypt(x XOR block). *)
(* No chaining: the accumulator stays as it started. *)
CmacChainLastOnly(key, data, x, i, fullBlocks) == x

RECURSIVE CmacChain(_, _, _, _, _)
CmacChain(key, data, x, i, fullBlocks) ==
  IF i >= fullBlocks THEN x
  ELSE LET block == BufferSlice(data, i * blockSize, (i + 1) * blockSize)
       IN Only({ CmacChain(key, data, nx, i + 1, fullBlocks) :
                 nx \in { CipherEcb(key, xor(x, block)).val } })

(* calculateCmac once key and data are at hand. *)
CmacOf(key, data) ==
  Only({ IF sk.threw THEN sk
         ELSE Only({ CipherEcb(key, xor(x, CmacMLast(data, sk.val.k1, sk.val.k2))) :
                     x \in { CmacChain(key, data, BufferAlloc(blockSize), 0,
                                       CmacBlockCount(data) - 1) } }) :
         sk \in { generateSubkeys(key) } })

calculateCmac(key, data) == Only({ CmacOf(k, d) : k \in {key}, d \in {data} })

(* The first 8 bytes instead of every other byte. *)
truncateCmacFirstEight(cmac) == BufferSlice(cmac \o BufferAlloc(8), 0, 8)

truncateCmac(cmac) ==
  Only({ ToSeq([i \in 1..8 |-> OrZero(BufferAt(c, (i - 1) * 2 + 1))], 8) : c \in {cmac} })

(***************************************************************************)
(* Hex strings: Buffer.from(str, 'hex'), buf.toString('hex'),              *)
(* str.toUpperCase().                                                      *)
(***************************************************************************)
HexDigitsLower ==
  << "0", "1", "2", "3", "4", "5", "6", "7", "8", "9", "a", "b", "c", "d", "e", "f" >>
HexDigitsUpper ==
  << "0", "1", "2", "3", "4", "5", "6", "7", "8", "9", "A", "B", "C", "D", "E", "F" >>
LowerLetters ==
  << "a", "b", "c", "d", "e", "f", "g", "h", "i", "j", "k", "l", "m",
     "n", "o", "p", "q", "r", "s", "t", "u", "v", "w", "x", "y", "z" >>
UpperLetters ==
  << "A", "B", "C", "D", "E", "F", "G", "H", "I", "J", "K", "L", "M",
     "N", "O", "P", "Q", "R", "S", "T", "U", "V", "W", "X", "Y", "Z" >>

(* The value of a hex digit of either case, -1 for any other character. *)
Unhex(c) ==
  IF \E i \in 1..16 : HexDigitsLower[i] = c
  THEN (CHOOSE i \in 1..16 : HexDigitsLower[i] = c) - 1
  ELSE IF \E i \in 1..16 : HexDigitsUpper[i] = c
       THEN (CHOOSE i \in 1..16 : HexDigitsUpper[i] = c) - 1
       ELSE -1

(* Buffer.from(str, 'hex'): decodes pairs of hex digits and stops at the *)
(* first pair that is not two hex digits; an odd last character is       *)
(* dropped.                                                              *)
RECURSIVE BufferFromHexLoop(_, _)
BufferFromHexLoop(str, i) ==
  IF 2 * i + 1 >= Len(str) THEN <<>>
  ELSE LET a == Unhex(str[2 * i + 1])
           b == Unhex(str[2 * i + 2])
       IN IF a < 0 \/ b < 0 THEN <<>>
          ELSE <<16 * a + b>> \o BufferFromHexLoop(str, i + 1)

BufferFromHex(str) == Only({ BufferFromHexLoop(s, 0) : s \in {str} })

(* buf.toString('hex'): two lower-case digits for each byte. *)
BufferToHex(buf) ==
  Only({ ToSeq([i \in 1..(2 * Len(b)) |->
                  IF i % 2 = 1 THEN HexDigitsLower[(b[(i + 1) \div 2] \div 16) + 1]
                  ELSE HexDigitsLower[(b[i \div 2] % 16) + 1]], 2 * Len(b)) :
         b \in {buf} })

UpperChar(c) ==
  IF \E i \in 1..26 : LowerLetters[i] = c
  THEN UpperLetters[CHOOSE i \in 1..26 : LowerLetters[i] = c]
  ELSE c

(* The string as it is, its lower-case letters kept. *)
toUpperCaseAsIs(str) == str

(* The character U+FB00, the small ligature ff.  toUpperCase follows the   *)
(* full case mapping of Unicode, in which one character may become two:    *)
(* this one is the only character outside ASCII whose upper case is made   *)
(* of hex digits.                                                          *)
SmallLigatureFf == "U+FB00"

UpperMapping(c) == IF c = SmallLigatureFf THEN << "F", "F" >> ELSE << UpperChar(c) >>

RECURSIVE toUpperCaseLoop(_, _)
toUpperCaseLoop(str, i) ==
  IF i > Len(str) THEN <<>> ELSE UpperMapping(str[i]) \o toUpperCaseLoop(str, i + 1)

toUpperCase(str) == Only({ toUpperCaseLoop(s, 1) : s \in {str} })

(***************************************************************************)
(* utils/ntag424: decryptPiccData, extractUidAndCounter,                   *)
(* generateSdmSessionVector, generateSdmSessionKey.                        *)
(***************************************************************************)

(* decryptPiccData with an empty buffer returned from the catch block. *)
decryptPiccDataEmptyOnError(piccData, sdmKey) ==
  Only({ IF d.threw
         THEN [ret |-> Some(<<>>),
               log |-> << <<"PICC data decryption failed:", d.message>> >>]
         ELSE [ret |-> Some(d.val), log |-> <<>>] :
         d \in { DecipherEcb(sdmKey, piccData) } })

(* decryptPiccData with a guard that turns the empty input away. *)
decryptPiccDataRejectsEmpty(piccData, sdmKey) ==
  Only({ IF d.threw \/ piccData = <<>>
         THEN [ret |-> None, log |-> << <<"PICC data decryption failed:", "empty">> >>]
         ELSE [ret |-> Some(d.val), log |-> <<>>] :
         d \in { DecipherEcb(sdmKey, piccData) } })

(* ret: the returned Buffer or null; log: what console.error was given. *)
decryptPiccData(piccData, sdmKey) ==
  Only({ IF d.threw
         THEN [ret |-> None, log |-> << <<"PICC data decryption failed:", d.message>> >>]
         ELSE [ret |-> Some(d.val), log |-> <<>>] :
         d \in { DecipherEcb(sdmKey, piccData) } })

(* ReadUIntLE3 with the bytes taken in big-endian order. *)
ReadUIntBE3(buf) == 65536 * buf[1] + 256 * buf[2] + buf[3]

(* buf.readUIntLE(0, 3) *)
ReadUIntLE3(buf) == buf[1] + 256 * buf[2] + 65536 * buf[3]

UidAndCounter(decryptedUid, decryptedCounter) ==
  Only({ [uid |-> u,
          counter |-> c,
          uidHex |-> toUpperCase(BufferToHex(u)),
          counterInt |-> ReadUIntLE3(c)] : u \in {decryptedUid}, c \in {decryptedCounter} })

(* extractUidAndCounter with the layout that starts at byte 0, whatever    *)
(* the length.                                                             *)
extractUidAndCounterFromByte0(decrypted) ==
  Only({ IF ~d.some \/ Len(d.val) < 10 THEN None
         ELSE Some(UidAndCounter(BufferSlice(d.val, 0, 7), BufferSlice(d.val, 7, 10))) :
         d \in {decrypted} })

(* extractUidAndCounter that turns away a first byte other than the tag    *)
(* 0xC7.                                                                   *)
extractUidAndCounterChecksTag(decrypted) ==
  Only({ IF ~d.some \/ Len(d.val) < 10 THEN None
         ELSE IF Len(d.val) >= 11
              THEN IF d.val[1] = 199
                   THEN Some(UidAndCounter(BufferSlice(d.val, 1, 8), BufferSlice(d.val, 8, 11)))
                   ELSE None
              ELSE Some(UidAndCounter(BufferSlice(d.val, 0, 7), BufferSlice(d.val, 7, 10))) :
         d \in {decrypted} })

(* decrypted: Some(buffer), or None for null. *)
extractUidAndCounter(decrypted) ==
  Only({ IF ~d.some \/ Len(d.val) < 10 THEN None
         ELSE IF Len(d.val) >= 11
              THEN Some(UidAndCounter(BufferSlice(d.val, 1, 8), BufferSlice(d.val, 8, 11)))
              ELSE IF Len(d.val) >= 10
                   THEN Some(UidAndCounter(BufferSlice(d.val, 0, 7),
                                           BufferSlice(d.val, 7, 10)))
                   ELSE None : d \in {decrypted} })

EncKeyPurpose == <<195, 60>>
MacKeyPurpose == <<60, 195>>
SessionVectorConstant == <<0, 1, 0, 128>>
DefaultOptions == [uidMirroring |-> TRUE, readCounter |-> TRUE]

(* An option that is left out counts as false. *)
OptionOrFalse(options, name, default) ==
  IF name \in DOMAIN options THEN options[name] ELSE FALSE

(* const { uidMirroring = true, readCounter = true } = options *)
OptionOr(options, name, default) ==
  IF name \in DOMAIN options THEN options[name] ELSE default

Reverse(s) == ToSeq([i \in 1..Len(s) |-> s[Len(s) + 1 - i]], Len(s))

MaxUInt24 == 16777215

(* Only the low byte of the counter is written. *)
ReadCtrBytesLowByte(readCtr) ==
  IF readCtr < 0 \/ readCtr > MaxUInt24 THEN Throw("ERR_OUT_OF_RANGE")
  ELSE Return(<< readCtr % 256, 0, 0 >>)

(* The counter bytes without rc.reverse(): left in big-endian order. *)
ReadCtrBytesNotReversed(readCtr) ==
  IF readCtr < 0 \/ readCtr > MaxUInt24 THEN Throw("ERR_OUT_OF_RANGE")
  ELSE Return(<< readCtr \div 65536, (readCtr \div 256) % 256, readCtr % 256 >>)

(* rc = Buffer.alloc(3); rc.writeUIntBE(readCtr, 0, 3); rc.reverse() *)
ReadCtrBytes(readCtr) ==
  IF readCtr < 0 \/ readCtr > MaxUInt24 THEN Throw("ERR_OUT_OF_RANGE")
  ELSE Return(Reverse(<< readCtr \div 65536, (readCtr \div 256) % 256, readCtr % 256 >>))

(* options: Some(record), or None when the argument is left out. *)
generateSdmSessionVector(purpose, uid, readCtr, options) ==
  LET opts == IF options.some THEN options.val ELSE DefaultOptions
      uidMirroring == OptionOr(opts, "uidMirroring", TRUE)
      readCounter == OptionOr(opts, "readCounter", TRUE)
      rc == ReadCtrBytes(readCtr)
      vec == purpose \o SessionVectorConstant
  IN IF rc.threw THEN rc
     ELSE IF purpose = EncKeyPurpose THEN Return(vec \o uid \o rc.val)
     ELSE IF purpose = MacKeyPurpose
          THEN Return(vec \o (IF uidMirroring THEN uid ELSE <<>>)
                          \o (IF readCounter THEN rc.val ELSE <<>>))
          ELSE Return(vec)

(* generateSdmSessionKey that pads a short vector with 0x80 and then       *)
(* zeros.                                                                  *)
generateSdmSessionKeyBitPadded(fileReadKey, purpose, uid, readCtr, options) ==
  Only({ IF sessionVector.threw THEN sessionVector
         ELSE IF Len(sessionVector.val) < 16
              THEN calculateCmac(fileReadKey,
                     sessionVector.val \o <<128>> \o BufferAlloc(15 - Len(sessionVector.val)))
              ELSE calculateCmac(fileReadKey, sessionVector.val) :
         sessionVector \in { generateSdmSessionVector(purpose, uid, readCtr, options) } })

(* generateSdmSessionKey without the zero padding of a short vector. *)
generateSdmSessionKeyUnpadded(fileReadKey, purpose, uid, readCtr, options) ==
  Only({ IF sessionVector.threw THEN sessionVector
         ELSE calculateCmac(fileReadKey, sessionVector.val) :
         sessionVector \in { generateSdmSessionVector(purpose, uid, readCtr, options) } })

generateSdmSessionKey(fileReadKey, purpose, uid, readCtr, options) ==
  Only({ IF sessionVector.threw THEN sessionVector
         ELSE IF Len(sessionVector.val) < 16
              THEN calculateCmac(fileReadKey,
                     sessionVector.val \o BufferAlloc(16 - Len(sessionVector.val)))
              ELSE calculateCmac(fileReadKey, sessionVector.val) :
         sessionVector \in { generateSdmSessionVector(purpose, uid, readCtr, options) } })

(***************************************************************************)
(* index: verifySdmAuth.                                                   *)
(***************************************************************************)
MethodLabel == "Full mirroring with empty data"

(* !sdmKeyHex: undefined or the empty string *)
Falsy(str) == ~str.some \/ str.val = <<>>

(* ResolveKey with ?? in place of ||: an empty argument is kept. *)
ResolveKeyNullish(sdmKeyHex, envKey) == IF sdmKeyHex.some THEN sdmKeyHex ELSE envKey

(* ResolveKey with the operands of || exchanged: the environment first. *)
ResolveKeyEnvFirst(sdmKeyHex, envKey) == IF Falsy(envKey) THEN sdmKeyHex ELSE envKey

(* The key string the call goes on with: the argument, or the value of *)
(* process.env['NTAG424_SDM_KEY'] when the argument is falsy.           *)
ResolveKey(sdmKeyHex, envKey) == IF Falsy(sdmKeyHex) THEN envKey ELSE sdmKeyHex

ErrorResult(msg) == [success |-> FALSE, error |-> msg]

(* catch (error): console.error('SDM authentication error:', error) *)
Caught(msg, log) ==
  [ret |-> ErrorResult(msg), log |-> Append(log, <<"SDM authentication error:", msg>>)]

FullMirroring == [uidMirroring |-> TRUE, readCounter |-> TRUE]

(* toUpperCase of the truncated CMAC in hex *)
CmacHex(fullCmac) == toUpperCase(BufferToHex(truncateCmac(fullCmac)))

(* Compared with the providedCmac field left out of the result. *)
ComparedNoProvided(cmacData, calculatedCmac, providedCmac) ==
  [success |-> calculatedCmac = providedCmac,
   uid |-> cmacData.uidHex,
   counter |-> cmacData.counterInt,
   method |-> IF calculatedCmac = providedCmac THEN Some(MethodLabel) ELSE None,
   calculatedCmac |-> calculatedCmac]

(* The result of the comparison, with the method it names on success. *)
Compared(cmacData, calculatedCmac, providedCmac) ==
  [success |-> calculatedCmac = providedCmac,
   uid |-> cmacData.uidHex,
   counter |-> cmacData.counterInt,
   method |-> IF calculatedCmac = providedCmac THEN Some(MethodLabel) ELSE None,
   calculatedCmac |-> calculatedCmac,
   providedCmac |-> providedCmac]

(* VerifyCmac with the session key derived without the read counter. *)
VerifyCmacNoCounter(sdmKey, providedCmac, cmacData, log) ==
  Only({ IF sessionMacKey.threw THEN Caught(sessionMacKey.message, log)
         ELSE Only({ IF fullCmac.threw THEN Caught(fullCmac.message, log)
                     ELSE Only({ [ret |-> Compared(cmacData, calculatedCmac, providedCmac),
                                  log |-> log] :
                                 calculatedCmac \in { CmacHex(fullCmac.val) } }) :
                     fullCmac \in { calculateCmac(sessionMacKey.val, BufferAlloc(0)) } }) :
         sessionMacKey \in { generateSdmSessionKey(sdmKey, MacKeyPurpose, cmacData.uid,
                                cmacData.counterInt,
                                Some([uidMirroring |-> TRUE, readCounter |-> FALSE])) } })

(* The last part of verifySdmAuth, from the session key on. *)
VerifyCmac(sdmKey, providedCmac, cmacData, log) ==
  Only({ IF sessionMacKey.threw THEN Caught(sessionMacKey.message, log)
         ELSE Only({ IF fullCmac.threw THEN Caught(fullCmac.message, log)
                     ELSE Only({ [ret |-> Compared(cmacData, calculatedCmac, providedCmac),
                                  log |-> log] :
                                 calculatedCmac \in { CmacHex(fullCmac.val) } }) :
                     fullCmac \in { calculateCmac(sessionMacKey.val, BufferAlloc(0)) } }) :
         sessionMacKey \in { generateSdmSessionKey(sdmKey, MacKeyPurpose, cmacData.uid,
                                                   cmacData.counterInt, Some(FullMirroring)) } })

(* verifySdmAuth from the decryption on, the key resolved and the hex     *)
(* strings parsed.                                                        *)
VerifyParsed(piccData, providedCmac, sdmKey) ==
  Only({ IF ~dec.ret.some
         THEN [ret |-> ErrorResult("PICC data decryption failed"), log |-> dec.log]
         ELSE Only({ IF ~cmacData.some
                     THEN [ret |-> ErrorResult("Failed to extract UID and counter"),
                           log |-> dec.log]
                     ELSE VerifyCmac(sdmKey, providedCmac, cmacData.val, dec.log) :
                     cmacData \in { extractUidAndCounter(dec.ret) } }) :
         dec \in { decryptPiccData(piccData, sdmKey) } })

(* ret: the returned SdmAuthResult; log: what console.error was given.   *)
(* envKey: process.env['NTAG424_SDM_KEY'] at the time of the call.       *)
verifySdmAuth(piccDataHex, providedCmacHex, sdmKeyHex, envKey) ==
  Only({ IF Falsy(keyHex)
         THEN [ret |-> ErrorResult("SDM key not configured"), log |-> <<>>]
         ELSE Only({ VerifyParsed(piccData, providedCmac, sdmKey) :
                     piccData \in { BufferFromHex(piccDataHex) },
                     providedCmac \in { toUpperCase(providedCmacHex) },
                     sdmKey \in { BufferFromHex(keyHex.val) } }) :
         keyHex \in { ResolveKey(sdmKeyHex, envKey) } })

(***************************************************************************)
(* The inputs the calls are drawn from.                                    *)
(***************************************************************************)
(* tests/index.test.ts: the PICC data used throughout *)
PiccTest ==
  << "1", "2", "3", "4", "5", "6", "7", "8", "9", "0", "A", "B", "C", "D", "E", "F",
     "1", "2", "3", "4", "5", "6", "7", "8", "9", "0", "A", "B", "C", "D", "E", "F" >>
(* 'invalid': no pair of hex digits at all *)
PiccInvalid ==
  << "i", "n", "v", "a", "l", "i", "d" >>
(* 10 bytes: not a whole cipher block *)
PiccShort ==
  << "1", "2", "3", "4", "5", "6", "7", "8", "9", "0", "A", "B", "C", "D", "E", "F",
     "1", "2", "3", "4" >>
(* testSdmKey *)
KeyZeros ==
  << "0", "0", "0", "0", "0", "0", "0", "0", "0", "0", "0", "0", "0", "0", "0", "0",
     "0", "0", "0", "0", "0", "0", "0", "0", "0", "0", "0", "0", "0", "0", "0", "0" >>
(* a second key, in lower case *)
KeySeq ==
  << "0", "0", "0", "1", "0", "2", "0", "3", "0", "4", "0", "5", "0", "6", "0", "7",
     "0", "8", "0", "9", "0", "a", "0", "b", "0", "c", "0", "d", "0", "e", "0", "f" >>
(* a well-formed hex string of the wrong length *)
KeyTwoBytes ==
  << "0", "0", "1", "1" >>
(* tests/index.test.ts: a CMAC that does not match *)
CmacTest ==
  << "1", "2", "3", "4", "5", "6", "7", "8", "9", "0", "A", "B", "C", "D", "E", "F" >>
(* the CMAC of PiccTest under KeyZeros, in lower case *)
CmacMatchLower ==
  << "7", "c", "7", "2", "6", "6", "c", "2", "c", "4", "1", "f", "f", "a", "1", "a" >>
(* malformed: PiccTest followed by two characters that are not hex digits *)
PiccTrailing == PiccTest \o << "z", "z" >>
(* malformed: an odd number of hex digits *)
PiccOdd == PiccTest \o << "0" >>
(* malformed: KeyZeros followed by a character that is not a hex digit *)
KeyTrailing == KeyZeros \o << "g" >>
(* malformed: no hex digit at all *)
KeyInvalid == << "z", "z" >>

PiccInputs == { PiccTest, <<>>, PiccInvalid, PiccShort, PiccTrailing, PiccOdd }
CmacInputs == { CmacMatchLower, CmacTest }
KeyInputs ==
  { None, Some(<<>>), Some(KeyZeros), Some(KeySeq), Some(KeyTwoBytes),
    Some(KeyTrailing), Some(KeyInvalid) }
EnvInputs == { None, Some(<<>>), Some(KeyZeros), Some(KeySeq) }

(***************************************************************************)
(* verifySdmAuth tabulated over the inputs of the model, so that a call    *)
(* is evaluated once for each argument tuple (@@ makes the table an        *)
(* enumerated function).                                                   *)
(***************************************************************************)
(* tests/index.test.ts: the inputs again in the other letter case *)
PiccTestLower ==
  << "1", "2", "3", "4", "5", "6", "7", "8", "9", "0", "a", "b", "c", "d", "e", "f",
     "1", "2", "3", "4", "5", "6", "7", "8", "9", "0", "a", "b", "c", "d", "e", "f" >>
PiccInvalidUpper ==
  << "I", "N", "V", "A", "L", "I", "D" >>
CmacTestLower ==
  << "1", "2", "3", "4", "5", "6", "7", "8", "9", "0", "a", "b", "c", "d", "e", "f" >>
CmacMatchUpper ==
  << "7", "C", "7", "2", "6", "6", "C", "2", "C", "4", "1", "F", "F", "A", "1", "A" >>
KeySeqUpper ==
  << "0", "0", "0", "1", "0", "2", "0", "3", "0", "4", "0", "5", "0", "6", "0", "7",
     "0", "8", "0", "9", "0", "A", "0", "B", "0", "C", "0", "D", "0", "E", "0", "F" >>

CasePiccInputs == { PiccTest, PiccTestLower, PiccInvalid, PiccInvalidUpper }
CaseCmacInputs == { CmacMatchLower, CmacMatchUpper, CmacTest, CmacTestLower }
CaseKeyInputs == { Some(KeyZeros), Some(KeySeq), Some(KeySeqUpper) }

(* PICC data made for the key of the tests: plaintexts with a chosen tag   *)
(* byte, uid and counter, and last five bytes, encrypted under KeyZeros;   *)
(* a second block after it or none.                                        *)
PlainOfTest == DecipherEcb(BufferFromHex(KeyZeros), BufferFromHex(PiccTest)).val
TagBodies == { SubSeq(PlainOfTest, 2, 11), <<4, 21, 38, 55, 72, 89, 106, 1, 0, 0>> }
TagBytes == { PlainOfTest[1], 199 }
TagTails == { SubSeq(PlainOfTest, 12, 16), <<0, 0, 0, 0, 0>> }
TagSecondBlocks == { <<>>, BufferFromHex(PiccTest) }

TagPiccInputs ==
  { BufferToHex(CipherEcb(BufferFromHex(KeyZeros), <<tag>> \o body \o tail).val \o second) :
      tag \in TagBytes, body \in TagBodies, tail \in TagTails, second \in TagSecondBlocks }

VerifyCalls ==
  (PiccInputs \X CmacInputs \X KeyInputs \X EnvInputs)
    \cup (CasePiccInputs \X CaseCmacInputs \X CaseKeyInputs \X { None })
    \cup (TagPiccInputs \X { CmacMatchLower } \X { Some(KeyZeros) } \X { None })

VerifyMemo ==
  [args \in VerifyCalls |-> verifySdmAuth(args[1], args[2], args[3], args[4])] @@ <<>>

VerifyOutcome(piccDataHex, providedCmacHex, sdmKeyHex, envKey) ==
  VerifyMemo[<<piccDataHex, providedCmacHex, sdmKeyHex, envKey>>]

(***************************************************************************)
(* State.                                                                  *)
(***************************************************************************)
VARIABLES
  processEnv,  \* process.env['NTAG424_SDM_KEY']: None or Some(string)
  lastCall,    \* the arguments of the latest verifySdmAuth call, and the
               \* environment value it ran under
  lastResult,  \* the SdmAuthResult it returned
  consoleLog,  \* what that call handed to console.error
  savedCall,   \* an earlier call and its result, kept for comparison
  frames,      \* the calls in progress, step by step
  fnCall       \* the latest call of a utility function, with its result

vars == <<processEnv, lastCall, lastResult, consoleLog, savedCall, frames, fnCall>>

StepCallers == { "A", "B" }
IdleFrame == [pc |-> "idle"]

Init ==
  /\ processEnv = None
  /\ lastCall = None
  /\ lastResult = None
  /\ consoleLog = <<>>
  /\ savedCall = None
  /\ frames = [caller \in StepCallers |-> IdleFrame]
  /\ fnCall = None

(* process.env['NTAG424_SDM_KEY'] = value *)
SetEnv(value) ==
  /\ processEnv' = Some(value)
  /\ UNCHANGED <<lastCall, lastResult, consoleLog, savedCall, frames, fnCall>>

(* delete process.env['NTAG424_SDM_KEY'] *)
DeleteEnv ==
  /\ processEnv' = None
  /\ UNCHANGED <<lastCall, lastResult, consoleLog, savedCall, frames, fnCall>>

(* Verify with the key that was passed kept in the environment for the     *)
(* calls that follow.                                                      *)
VerifyStoresKey(piccDataHex, providedCmacHex, sdmKeyHex) ==
  LET outcome == VerifyOutcome(piccDataHex, providedCmacHex, sdmKeyHex, processEnv)
  IN /\ lastCall' = Some([piccDataHex |-> piccDataHex,
                          providedCmacHex |-> providedCmacHex,
                          sdmKeyHex |-> sdmKeyHex,
                          envKey |-> processEnv])
     /\ lastResult' = Some(outcome.ret)
     /\ consoleLog' = outcome.log
     /\ processEnv' = IF Falsy(sdmKeyHex) THEN processEnv ELSE sdmKeyHex
     /\ UNCHANGED <<savedCall, frames, fnCall>>

(* One call of verifySdmAuth, from entry to return. *)
Verify(piccDataHex, providedCmacHex, sdmKeyHex) ==
  LET outcome == VerifyOutcome(piccDataHex, providedCmacHex, sdmKeyHex, processEnv)
  IN /\ lastCall' = Some([piccDataHex |-> piccDataHex,
                          providedCmacHex |-> providedCmacHex,
                          sdmKeyHex |-> sdmKeyHex,
                          envKey |-> processEnv])
     /\ lastResult' = Some(outcome.ret)
     /\ consoleLog' = outcome.log
     /\ UNCHANGED <<processEnv, savedCall, frames, fnCall>>

EnvValues == { v.val : v \in { e \in EnvInputs : e.some } }

Next ==
  \/ \E value \in EnvValues : SetEnv(value)
  \/ DeleteEnv
  \/ \E p \in PiccInputs, c \in CmacInputs, k \in KeyInputs : Verify(p, c, k)

Spec == Init /\ [][Next]_vars


(***************************************************************************)
(* verifySdmAuth step by step: one frame for each call in progress, with   *)
(* the locals of the call, the steps it has run (steps), the steps in      *)
(* which it called the block cipher (cipherCalls) and what it handed to    *)
(* console.error (log).                                                    *)
(***************************************************************************)
StepOrder ==
  << "resolve", "parse", "decrypt", "extract", "derive", "cmac", "compare" >>

NewFrame(piccDataHex, providedCmacHex, sdmKeyHex) ==
  [pc |-> "resolve",
   piccDataHex |-> piccDataHex,
   providedCmacHex |-> providedCmacHex,
   sdmKeyHex |-> sdmKeyHex,
   keyHex |-> None,
   piccData |-> None,
   providedCmac |-> None,
   sdmKey |-> None,
   decrypted |-> None,
   cmacData |-> None,
   sessionMacKey |-> None,
   calculatedCmac |-> None,
   steps |-> <<>>,
   cipherCalls |-> <<>>,
   log |-> <<>>,
   result |-> None]

(* The frame once it has run step and goes on with the step next. *)
Ran(frame, step, next) == [frame EXCEPT !.pc = next, !.steps = Append(@, step)]

(* The frame once it has run step and returned res from it. *)
Ended(frame, step, res) ==
  [frame EXCEPT !.pc = "done", !.steps = Append(@, step), !.result = Some(res)]

(* The caller calls verifySdmAuth. *)
Begin(caller, piccDataHex, providedCmacHex, sdmKeyHex) ==
  /\ frames[caller].pc = "idle"
  /\ frames' = [frames EXCEPT ![caller] = NewFrame(piccDataHex, providedCmacHex, sdmKeyHex)]
  /\ UNCHANGED <<processEnv, lastCall, lastResult, consoleLog, savedCall, fnCall>>

(* if (!sdmKeyHex) sdmKeyHex = process.env[...]; if (!sdmKeyHex) return *)
StepResolve(caller) ==
  /\ frames[caller].pc = "resolve"
  /\ \E keyHex \in { ResolveKey(frames[caller].sdmKeyHex, processEnv) } :
       frames' = [frames EXCEPT ![caller] =
                    IF Falsy(keyHex)
                    THEN Ended(frames[caller], "resolve",
                               ErrorResult("SDM key not configured"))
                    ELSE [Ran(frames[caller], "resolve", "parse") EXCEPT !.keyHex = keyHex]]
  /\ UNCHANGED <<processEnv, lastCall, lastResult, consoleLog, savedCall, fnCall>>

(* Buffer.from(piccDataHex, 'hex'), providedCmacHex.toUpperCase(), *)
(* Buffer.from(sdmKeyHex, 'hex')                                   *)
StepParse(caller) ==
  /\ frames[caller].pc = "parse"
  /\ frames' = [frames EXCEPT ![caller] =
                  [Ran(frames[caller], "parse", "decrypt") EXCEPT
                     !.piccData = Some(BufferFromHex(frames[caller].piccDataHex)),
                     !.providedCmac = Some(toUpperCase(frames[caller].providedCmacHex)),
                     !.sdmKey = Some(BufferFromHex(frames[caller].keyHex.val))]]
  /\ UNCHANGED <<processEnv, lastCall, lastResult, consoleLog, savedCall, fnCall>>

(* StepDecrypt without the return on a null result: the call goes on. *)
StepDecryptGoesOn(caller) ==
  /\ frames[caller].pc = "decrypt"
  /\ \E dec \in { decryptPiccData(frames[caller].piccData.val, frames[caller].sdmKey.val) } :
       frames' = [frames EXCEPT ![caller] =
                    [Ran(frames[caller], "decrypt", "extract") EXCEPT
                       !.cipherCalls = Append(@, "decrypt"),
                       !.log = @ \o dec.log,
                       !.decrypted = dec.ret]]
  /\ UNCHANGED <<processEnv, lastCall, lastResult, consoleLog, savedCall, fnCall>>

(* decrypted = decryptPiccData(piccData, sdmKey); if (!decrypted) return *)
StepDecrypt(caller) ==
  /\ frames[caller].pc = "decrypt"
  /\ \E dec \in { decryptPiccData(frames[caller].piccData.val, frames[caller].sdmKey.val) } :
       frames' = [frames EXCEPT ![caller] =
                    IF ~dec.ret.some
                    THEN [Ended(frames[caller], "decrypt",
                                ErrorResult("PICC data decryption failed")) EXCEPT
                            !.cipherCalls = Append(@, "decrypt"),
                            !.log = @ \o dec.log]
                    ELSE [Ran(frames[caller], "decrypt", "extract") EXCEPT
                            !.cipherCalls = Append(@, "decrypt"),
                            !.decrypted = dec.ret]]
  /\ UNCHANGED <<processEnv, lastCall, lastResult, consoleLog, savedCall, fnCall>>

(* cmacData = extractUidAndCounter(decrypted); if (!cmacData) return *)
StepExtract(caller) ==
  /\ frames[caller].pc = "extract"
  /\ \E cmacData \in { extractUidAndCounter(frames[caller].decrypted) } :
       frames' = [frames EXCEPT ![caller] =
                    IF ~cmacData.some
                    THEN Ended(frames[caller], "extract",
                               ErrorResult("Failed to extract UID and counter"))
                    ELSE [Ran(frames[caller], "extract", "derive") EXCEPT
                            !.cmacData = cmacData]]
  /\ UNCHANGED <<processEnv, lastCall, lastResult, consoleLog, savedCall, fnCall>>

(* sessionMacKey = generateSdmSessionKey(sdmKey, [0x3C, 0xC3], uid,   *)
(*   counterInt, { uidMirroring: true, readCounter: true })           *)
StepDerive(caller) ==
  /\ frames[caller].pc = "derive"
  /\ \E key \in { generateSdmSessionKey(frames[caller].sdmKey.val, MacKeyPurpose,
                    frames[caller].cmacData.val.uid,
                    frames[caller].cmacData.val.counterInt, Some(FullMirroring)) } :
       frames' = [frames EXCEPT ![caller] =
                    IF key.threw
                    THEN [Ended(frames[caller], "derive", ErrorResult(key.message)) EXCEPT
                            !.cipherCalls = Append(@, "derive"),
                            !.log = Append(@, <<"SDM authentication error:", key.message>>)]
                    ELSE [Ran(frames[caller], "derive", "cmac") EXCEPT
                            !.cipherCalls = Append(@, "derive"),
                            !.sessionMacKey = Some(key.val)]]
  /\ UNCHANGED <<processEnv, lastCall, lastResult, consoleLog, savedCall, fnCall>>

(* StepCmac with the session key of the other caller's call when that call *)
(* has derived one: a key kept from one invocation to the next.            *)
StepCmacSharedKey(caller) ==
  /\ frames[caller].pc = "cmac"
  /\ \E other \in { CHOOSE c \in StepCallers : c # caller } :
     \E key \in { IF "sessionMacKey" \in DOMAIN frames[other] /\ frames[other].sessionMacKey.some
                  THEN frames[other].sessionMacKey.val
                  ELSE frames[caller].sessionMacKey.val } :
     \E fullCmac \in { calculateCmac(key, BufferAlloc(0)) } :
       frames' = [frames EXCEPT ![caller] =
                    [Ran(frames[caller], "cmac", "compare") EXCEPT
                       !.cipherCalls = Append(@, "cmac"),
                       !.calculatedCmac = Some(CmacHex(fullCmac.val))]]
  /\ UNCHANGED <<processEnv, lastCall, lastResult, consoleLog, savedCall, fnCall>>

(* fullCmac = calculateCmac(sessionMacKey, Buffer.alloc(0));          *)
(* calculatedCmac = truncateCmac(fullCmac).toString('hex').toUpperCase() *)
StepCmac(caller) ==
  /\ frames[caller].pc = "cmac"
  /\ \E fullCmac \in { calculateCmac(frames[caller].sessionMacKey.val, BufferAlloc(0)) } :
       frames' = [frames EXCEPT ![caller] =
                    IF fullCmac.threw
                    THEN [Ended(frames[caller], "cmac", ErrorResult(fullCmac.message)) EXCEPT
                            !.cipherCalls = Append(@, "cmac"),
                            !.log = Append(@, <<"SDM authentication error:",
                                                fullCmac.message>>)]
                    ELSE [Ran(frames[caller], "cmac", "compare") EXCEPT
                            !.cipherCalls = Append(@, "cmac"),
                            !.calculatedCmac = Some(CmacHex(fullCmac.val))]]
  /\ UNCHANGED <<processEnv, lastCall, lastResult, consoleLog, savedCall, fnCall>>

(* isValid = calculatedCmac === providedCmac; return { ... } *)
StepCompare(caller) ==
  /\ frames[caller].pc = "compare"
  /\ frames' = [frames EXCEPT ![caller] =
                  Ended(frames[caller], "compare",
                        Compared(frames[caller].cmacData.val,
                                 frames[caller].calculatedCmac.val,
                                 frames[caller].providedCmac.val))]
  /\ UNCHANGED <<processEnv, lastCall, lastResult, consoleLog, savedCall, fnCall>>

(* The caller takes the result: the frame is gone. *)
Finish(caller) ==
  /\ frames[caller].pc = "done"
  /\ frames' = [frames EXCEPT ![caller] = IdleFrame]
  /\ UNCHANGED <<processEnv, lastCall, lastResult, consoleLog, savedCall, fnCall>>

(* One step of a call in progress. *)
Step(caller) ==
  \/ StepResolve(caller)
  \/ StepParse(caller)
  \/ StepDecrypt(caller)
  \/ StepExtract(caller)
  \/ StepDerive(caller)
  \/ StepCmac(caller)
  \/ StepCompare(caller)
  \/ Finish(caller)

(* JavaScript runs a call to completion: the environment changes only *)
(* between the calls of one thread.                                   *)
NoCallInProgress == \A caller \in StepCallers : frames[caller].pc \in { "idle", "done" }

SoloCallers == { "A" }
(* two cipher blocks *)
PiccTwoBlocks == PiccTest \o PiccTestLower

StepPiccInputs == { PiccTest, <<>>, PiccShort, PiccTrailing, PiccTwoBlocks }
StepKeyInputs == { None, Some(KeyZeros), Some(KeyTwoBytes) }

NextSteps ==
  \/ \E caller \in SoloCallers, p \in StepPiccInputs, c \in CmacInputs, k \in StepKeyInputs :
       Begin(caller, p, c, k)
  \/ \E caller \in SoloCallers : Step(caller)
  \/ NoCallInProgress /\ \E value \in EnvValues : SetEnv(value)
  \/ NoCallInProgress /\ DeleteEnv

SpecSteps == Init /\ [][NextSteps]_vars

(***************************************************************************)
(* Several calls in progress at once: the steps of the callers interleave  *)
(* in every order.  The environment changes only while no call is running. *)
(***************************************************************************)
AllIdle == \A caller \in StepCallers : frames[caller].pc = "idle"

ConcPiccInputs == { PiccTest, PiccShort }
ConcCmacInputs == { CmacMatchLower }
ConcKeyInputs == { None, Some(KeyZeros), Some(KeySeq) }

NextConc ==
  \/ \E caller \in StepCallers, p \in ConcPiccInputs, c \in ConcCmacInputs, k \in ConcKeyInputs :
       Begin(caller, p, c, k)
  \/ \E caller \in StepCallers : Step(caller)
  \/ AllIdle /\ SetEnv(KeyZeros)
  \/ AllIdle /\ DeleteEnv

SpecConc == Init /\ [][NextConc]_vars

(***************************************************************************)
(* Calls with provided CMAC strings that are near the right one: the       *)
(* matching CMAC of PiccTest under KeyZeros in both cases, with a blank    *)
(* before or after it, cut short, extended, prefixed, with a character     *)
(* that is no hex digit, with a ligature, and the empty string.            *)
(***************************************************************************)
(* CmacMatchLower with its two letters f written as one ligature *)
CmacMatchLigature ==
  << "7", "c", "7", "2", "6", "6", "c", "2", "c", "4", "1", SmallLigatureFf, "a", "1", "a" >>

ProvidedCmacInputs ==
  { CmacMatchLower, CmacMatchUpper, CmacTest, <<>>,
    CmacMatchLower \o << " " >>,
    << " " >> \o CmacMatchUpper,
    SubSeq(CmacMatchUpper, 1, 15),
    CmacMatchUpper \o << "0" >>,
    << "0", "x" >> \o CmacMatchLower,
    SubSeq(CmacMatchUpper, 1, 15) \o << "G" >>,
    CmacMatchLigature }
ProvidedPiccInputs == { PiccTest, PiccTwoBlocks, PiccTrailing }
ProvidedKeyInputs == { Some(KeyZeros), Some(KeySeq) }

NextProvided ==
  \/ \E caller \in SoloCallers, p \in ProvidedPiccInputs, c \in ProvidedCmacInputs,
        k \in ProvidedKeyInputs :
       Begin(caller, p, c, k)
  \/ \E caller \in SoloCallers : Step(caller)

SpecProvided == Init /\ [][NextProvided]_vars

(***************************************************************************)
(* A sequence of calls, one of which is kept for comparison with a later   *)
(* one.                                                                    *)
(***************************************************************************)
Remember ==
  /\ lastCall.some
  /\ savedCall' = Some([call |-> lastCall.val, result |-> lastResult.val])
  /\ UNCHANGED <<processEnv, lastCall, lastResult, consoleLog, frames, fnCall>>

HistoryPiccInputs == { PiccTest, PiccShort }
HistoryCmacInputs == { CmacMatchLower }
HistoryKeyInputs == { None, Some(<<>>), Some(KeyZeros) }

NextHistory ==
  \/ \E value \in EnvValues : SetEnv(value)
  \/ DeleteEnv
  \/ \E p \in HistoryPiccInputs, c \in HistoryCmacInputs, k \in HistoryKeyInputs :
       Verify(p, c, k)
  \/ Remember

SpecHistory == Init /\ [][NextHistory]_vars

(***************************************************************************)
(* Calls whose arguments differ in letter case only, one of them kept for  *)
(* comparison with a later one.                                            *)
(***************************************************************************)
NextCase ==
  \/ \E p \in CasePiccInputs, c \in CaseCmacInputs, k \in CaseKeyInputs : Verify(p, c, k)
  \/ Remember

SpecCase == Init /\ [][NextCase]_vars

(***************************************************************************)
(* Calls whose PICC data differ in the tag byte, in the bytes after the    *)
(* counter or in a second block, one of them kept for comparison with a    *)
(* later one.                                                              *)
(***************************************************************************)
NextTag ==
  \/ \E p \in TagPiccInputs : Verify(p, CmacMatchLower, Some(KeyZeros))
  \/ Remember

SpecTag == Init /\ [][NextTag]_vars

(***************************************************************************)
(* Calls of the utility functions on their own.                            *)
(***************************************************************************)
(* n bytes: first, first + step, first + 2 * step, ... (mod 256) *)
Pattern(n, first, step) == ToSeq([i \in 1..n |-> (first + step * (i - 1)) % 256], n)

MaxExtractLen == 12

ExtractInputs ==
  { None } \cup
  { Some(Pattern(n, first, step)) :
      n \in 0..MaxExtractLen, first \in { 0, 1, 128, 250 }, step \in { 0, 1, 37 } }

(* extractUidAndCounter(decrypted) *)
CallExtract(decrypted) ==
  /\ fnCall' = Some([fn |-> "extractUidAndCounter",
                     decrypted |-> decrypted,
                     ret |-> extractUidAndCounter(decrypted)])
  /\ UNCHANGED <<processEnv, lastCall, lastResult, consoleLog, savedCall, frames>>

NextExtract == \E decrypted \in ExtractInputs : CallExtract(decrypted)

SpecExtract == Init /\ [][NextExtract]_vars

MaxPiccLen == 33

DecryptInputs == { Pattern(n, first, 3) : n \in 0..MaxPiccLen, first \in { 0, 200 } }
DecryptKeys ==
  { Pattern(n, 0, 1) : n \in { 0, 15, 16, 17, 32 } } \cup { Pattern(16, 255, 0) }

(* decryptPiccData(piccData, sdmKey) *)
CallDecrypt(piccData, sdmKey) ==
  \E dec \in { decryptPiccData(piccData, sdmKey) } :
    /\ fnCall' = Some([fn |-> "decryptPiccData",
                       piccData |-> piccData,
                       sdmKey |-> sdmKey,
                       ret |-> dec.ret,
                       log |-> dec.log])
    /\ UNCHANGED <<processEnv, lastCall, lastResult, consoleLog, savedCall, frames>>

NextDecrypt == \E piccData \in DecryptInputs, sdmKey \in DecryptKeys : CallDecrypt(piccData, sdmKey)

SpecDecrypt == Init /\ [][NextDecrypt]_vars

(* The caller lets go of the value a utility call returned. *)
DropCall ==
  /\ fnCall.some
  /\ fnCall' = None
  /\ UNCHANGED <<processEnv, lastCall, lastResult, consoleLog, savedCall, frames>>

MaxCmacLen == 40

CmacKeys == { Pattern(16, 0, 0), Pattern(16, 43, 29), Pattern(15, 0, 1) }
CmacDatas == { Pattern(n, first, 7) : n \in 0..MaxCmacLen, first \in { 0, 129 } }

(* The locals of calculateCmac after line 100; none when generateSubkeys threw. *)
CmacLocals(data, sk) ==
  IF sk.threw THEN None
  ELSE Some([k1 |-> sk.val.k1,
             k2 |-> sk.val.k2,
             n |-> CmacBlockCount(data),
             lastBlockComplete |-> lastBlockComplete(data),
             lastBlock |-> CmacLastBlock(data),
             subkey |-> IF lastBlockComplete(data) THEN sk.val.k1 ELSE sk.val.k2,
             mLast |-> CmacMLast(data, sk.val.k1, sk.val.k2)])

(* calculateCmac(key, data) *)
CallCmac(key, data) ==
  \E out \in { calculateCmac(key, data) }, sk \in { generateSubkeys(key) } :
    /\ fnCall = None
    /\ fnCall' = Some([fn |-> "calculateCmac",
                       key |-> key,
                       data |-> data,
                       locals |-> CmacLocals(data, sk),
                       ret |-> out])
    /\ UNCHANGED <<processEnv, lastCall, lastResult, consoleLog, savedCall, frames>>

NextCmac ==
  \/ \E key \in CmacKeys, data \in CmacDatas : CallCmac(key, data)
  \/ DropCall

SpecCmac == Init /\ [][NextCmac]_vars

(* The caller keeps the value a utility call returned, to compare a later *)
(* call with it.                                                           *)
KeepCall ==
  /\ fnCall.some
  /\ savedCall' = fnCall
  /\ fnCall' = None
  /\ UNCHANGED <<processEnv, lastCall, lastResult, consoleLog, frames>>

MaxSubkeyFirst == 10

SubkeyKeys ==
  { Pattern(16, 23 * first, 1 + first) : first \in 0..MaxSubkeyFirst } \cup { Pattern(15, 0, 1) }

(* generateSubkeys(key), with its local l *)
CallSubkeys(key) ==
  \E out \in { generateSubkeys(key) }, l \in { CipherEcb(key, BufferAlloc(16)) } :
    /\ fnCall = None
    /\ fnCall' = Some([fn |-> "generateSubkeys", key |-> key, l |-> l, ret |-> out])
    /\ UNCHANGED <<processEnv, lastCall, lastResult, consoleLog, savedCall, frames>>

NextSubkeys ==
  \/ \E key \in SubkeyKeys : CallSubkeys(key)
  \/ KeepCall

SpecSubkeys == Init /\ [][NextSubkeys]_vars

MaxTruncateLen == 17

TruncateInputs ==
  { Pattern(n, first, step) :
      n \in 0..MaxTruncateLen, first \in { 0, 18, 255 }, step \in { 0, 1, 34 } }

(* truncateCmac(cmac) *)
CallTruncate(cmac) ==
  /\ fnCall' = Some([fn |-> "truncateCmac", cmac |-> cmac, ret |-> truncateCmac(cmac)])
  /\ UNCHANGED <<processEnv, lastCall, lastResult, consoleLog, savedCall, frames>>

NextTruncate == \E cmac \in TruncateInputs : CallTruncate(cmac)

SpecTruncate == Init /\ [][NextTruncate]_vars

VectorPurposes == { EncKeyPurpose, MacKeyPurpose, <<0, 0>>, <<195>> }
VectorUids == { Pattern(7, 4, 17), <<>> }
VectorCounters == { 0, 1, 66051, MaxUInt24, MaxUInt24 + 1 }
VectorOptions ==
  { None, Some(<<>>),
    Some([uidMirroring |-> FALSE]), Some([readCounter |-> FALSE]) } \cup
  { Some([uidMirroring |-> um, readCounter |-> rc]) : um \in BOOLEAN, rc \in BOOLEAN }

(* generateSdmSessionVector(purpose, uid, readCtr, options) *)
CallVector(purpose, uid, readCtr, options) ==
  /\ fnCall' = Some([fn |-> "generateSdmSessionVector",
                     purpose |-> purpose,
                     uid |-> uid,
                     readCtr |-> readCtr,
                     options |-> options,
                     ret |-> generateSdmSessionVector(purpose, uid, readCtr, options)])
  /\ UNCHANGED <<processEnv, lastCall, lastResult, consoleLog, savedCall, frames>>

NextVector ==
  \E purpose \in VectorPurposes, uid \in VectorUids,
     readCtr \in VectorCounters, options \in VectorOptions :
    CallVector(purpose, uid, readCtr, options)

SpecVector == Init /\ [][NextVector]_vars

(* The uid of the generateSdmSessionKey tests: 8 bytes *)
UidOfTests == <<18, 52, 86, 120, 144, 171, 205, 239>>

SessionKeys == { Pattern(16, 0, 0), Pattern(16, 43, 29), Pattern(15, 0, 1) }
SessionPurposes == { EncKeyPurpose, MacKeyPurpose, <<0, 0>> }
SessionUids == { Pattern(7, 4, 17), UidOfTests, <<>> }
SessionCounters == { 0, 1193046, MaxUInt24 + 1 }
SessionOptions ==
  { None,
    Some([uidMirroring |-> FALSE, readCounter |-> TRUE]),
    Some([uidMirroring |-> TRUE, readCounter |-> FALSE]),
    Some([uidMirroring |-> FALSE, readCounter |-> FALSE]) }

(* generateSdmSessionKey(fileReadKey, purpose, uid, readCtr, options), with *)
(* its local sessionVector                                                  *)
CallSessionKey(fileReadKey, purpose, uid, readCtr, options) ==
  \E out \in { generateSdmSessionKey(fileReadKey, purpose, uid, readCtr, options) } :
    /\ fnCall = None
    /\ fnCall' = Some([fn |-> "generateSdmSessionKey",
                       fileReadKey |-> fileReadKey,
                       purpose |-> purpose,
                       uid |-> uid,
                       readCtr |-> readCtr,
                       options |-> options,
                       sessionVector |-> generateSdmSessionVector(purpose, uid, readCtr, options),
                       ret |-> out])
    /\ UNCHANGED <<processEnv, lastCall, lastResult, consoleLog, savedCall, frames>>

NextSessionKey ==
  \/ \E fileReadKey \in SessionKeys, purpose \in SessionPurposes, uid \in SessionUids,
        readCtr \in SessionCounters, options \in SessionOptions :
       CallSessionKey(fileReadKey, purpose, uid, readCtr, options)
  \/ DropCall

SpecSessionKey == Init /\ [][NextSessionKey]_vars

(* Calls of generateSdmSessionKey compared two by two. *)
PairPurposes == { EncKeyPurpose, MacKeyPurpose, <<0, 0>> }
PairUids == { Pattern(7, 4, 17), UidOfTests }
PairCounters == { 0, 256, 1193046, 1193047 }
PairOptions == { None, Some([uidMirroring |-> TRUE, readCounter |-> FALSE]) }

NextSessionKeyPairs ==
  \/ \E purpose \in PairPurposes, uid \in PairUids,
        readCtr \in PairCounters, options \in PairOptions :
       CallSessionKey(Pattern(16, 0, 0), purpose, uid, readCtr, options)
  \/ KeepCall

SpecSessionKeyPairs == Init /\ [][NextSessionKeyPairs]_vars

MaxXorLen == 3

XorInputs ==
  { Pattern(n, first, step) : n \in 0..MaxXorLen, first \in { 1, 4, 255 }, step \in { 1, 170 } }

(* xor(bytes1, bytes2) *)
CallXor(bytes1, bytes2) ==
  /\ fnCall' = Some([fn |-> "xor", bytes1 |-> bytes1, bytes2 |-> bytes2,
                     ret |-> xor(bytes1, bytes2)])
  /\ UNCHANGED <<processEnv, lastCall, lastResult, consoleLog, savedCall, frames>>

NextXor == \E bytes1 \in XorInputs, bytes2 \in XorInputs : CallXor(bytes1, bytes2)

SpecXor == Init /\ [][NextXor]_vars

MaxShiftLen == 5

ShiftInputs ==
  { Pattern(n, first, step) :
      n \in 0..MaxShiftLen, first \in { 0, 1, 64, 127, 128, 255 },
      step \in { 0, 1, 127, 128, 129 } } \cup { <<128, 1, 2>> }

(* shiftLeft(buffer) *)
CallShift(buffer) ==
  /\ fnCall' = Some([fn |-> "shiftLeft", buffer |-> buffer, ret |-> shiftLeft(buffer)])
  /\ UNCHANGED <<processEnv, lastCall, lastResult, consoleLog, savedCall, frames>>

NextShift == \E buffer \in ShiftInputs : CallShift(buffer)

SpecShift == Init /\ [][NextShift]_vars

(* The counter from the decrypted PICC data to the session vector, as      *)
(* verifySdmAuth passes it on: extractUidAndCounter, then the vector that  *)
(* generateSdmSessionKey builds from the uid and counterInt it returned.   *)
CounterByteValues == { 0, 1, 128, 255 }
CounterBuffers ==
  { << b0, b1, b2 >> : b0 \in CounterByteValues, b1 \in CounterByteValues,
                       b2 \in CounterByteValues }
DecryptedWithCounter ==
  { Pattern(7, 4, 17) \o c : c \in CounterBuffers }
    \cup { <<199>> \o Pattern(7, 4, 17) \o c : c \in CounterBuffers }
    \cup { <<199>> \o Pattern(7, 4, 17) \o c \o Pattern(5, 9, 40) : c \in CounterBuffers }
RoundTripCounters == { 0, 1, 255, 256, 65535, 65536, 1193046, MaxUInt24, MaxUInt24 + 1 }

CallExtractThenVector(decrypted) ==
  \E cmacData \in { extractUidAndCounter(Some(decrypted)) } :
    /\ cmacData.some
    /\ fnCall' = Some([fn |-> "extractUidAndCounter, generateSdmSessionVector",
                       decrypted |-> decrypted,
                       cmacData |-> cmacData.val,
                       sessionVector |->
                         generateSdmSessionVector(MacKeyPurpose, cmacData.val.uid,
                                                  cmacData.val.counterInt,
                                                  Some(FullMirroring))])
    /\ UNCHANGED <<processEnv, lastCall, lastResult, consoleLog, savedCall, frames>>

NextRoundTrip ==
  \/ \E decrypted \in DecryptedWithCounter : CallExtractThenVector(decrypted)
  \/ \E purpose \in { EncKeyPurpose, MacKeyPurpose }, readCtr \in RoundTripCounters,
        options \in { None, Some([uidMirroring |-> FALSE, readCounter |-> TRUE]) } :
       CallVector(purpose, Pattern(7, 4, 17), readCtr, options)

SpecRoundTrip == Init /\ [][NextRoundTrip]_vars

(***************************************************************************)
(* What a call's arguments determine, step by step, written out from the   *)
(* arguments of the latest call: the vocabulary of the properties below.   *)
(***************************************************************************)
HasError(res) == "error" \in DOMAIN res
HasCmacs(res) == "calculatedCmac" \in DOMAIN res /\ "providedCmac" \in DOMAIN res
HasNoCmac(res) == "calculatedCmac" \notin DOMAIN res /\ "providedCmac" \notin DOMAIN res
HasUidAndCounter(res) == "uid" \in DOMAIN res /\ "counter" \in DOMAIN res
HasNoUidOrCounter(res) == "uid" \notin DOMAIN res /\ "counter" \notin DOMAIN res

(* Malformed hex: a character that is no hex digit, or an odd length. *)
MalformedHex(str) ==
  Len(str) % 2 = 1 \/ \E i \in 1..Len(str) : Unhex(str[i]) < 0

CallKeyHex(call) == ResolveKey(call.sdmKeyHex, call.envKey)
KeyResolved(call) == ~Falsy(CallKeyHex(call))
CallSdmKey(call) == BufferFromHex(CallKeyHex(call).val)
CallDecrypted(call) ==
  decryptPiccData(BufferFromHex(call.piccDataHex), CallSdmKey(call)).ret
CallExtracted(call) == extractUidAndCounter(CallDecrypted(call))

(* The key is resolved, decryption succeeds and extraction succeeds. *)
ReachesComparison(call) ==
  KeyResolved(call) /\ CallDecrypted(call).some /\ CallExtracted(call).some

(* Uppercase hex of truncateCmac(calculateCmac(K, empty)), K the session  *)
(* MAC key of the extracted uid and counter with full mirroring.          *)
ExpectedCmac(call) ==
  Only({ toUpperCase(BufferToHex(truncateCmac(
           calculateCmac(
             generateSdmSessionKey(CallSdmKey(call), <<60, 195>>, e.val.uid,
               e.val.counterInt,
               Some([uidMirroring |-> TRUE, readCounter |-> TRUE])).val,
             <<>>).val))) :
         e \in { CallExtracted(call) } })

(***************************************************************************)
(* C1.  For every call in which the key is resolved, decryption succeeds   *)
(* and UID/counter extraction succeeds: success is true if and only if the *)
(* upper-cased provided CMAC equals the uppercase hex of the truncated     *)
(* CMAC over empty data under the session MAC key of the extracted uid and *)
(* counter (full mirroring), and method is 'Full mirroring with empty      *)
(* data' exactly when success is true and null otherwise.                  *)
(***************************************************************************)
C1_SuccessIffCmacMatches ==
  (lastCall.some /\ ReachesComparison(lastCall.val)) =>
    /\ lastResult.val.success =
         (toUpperCase(lastCall.val.providedCmacHex) = ExpectedCmac(lastCall.val))
    /\ lastResult.val.method =
         (IF lastResult.val.success THEN Some("Full mirroring with empty data") ELSE None)

(* A call that authenticates, its CMAC given in lower case. *)
C1_Witness ==
  /\ lastCall.some
  /\ ReachesComparison(lastCall.val)
  /\ lastResult.val.success = TRUE
  /\ lastCall.val.providedCmacHex # toUpperCase(lastCall.val.providedCmacHex)

(***************************************************************************)
(* C2, as stated.  Every result of verifySdmAuth, whatever the outcome,    *)
(* carries both calculatedCmac and providedCmac.                           *)
(***************************************************************************)
C2_EveryResultCarriesCmacs ==
  lastResult.some => HasCmacs(lastResult.val)

(***************************************************************************)
(* C2, amended.  The result of every call that reaches the comparison      *)
(* (success or CMAC mismatch) carries both calculatedCmac and              *)
(* providedCmac; the result of a call that ends before it (key not         *)
(* configured, decryption failure, extraction failure) carries neither.    *)
(***************************************************************************)
C2_ComparedResultsCarryCmacs ==
  lastCall.some =>
    IF ReachesComparison(lastCall.val)
    THEN HasCmacs(lastResult.val)
    ELSE HasNoCmac(lastResult.val)

(* A CMAC mismatch: the result carries both CMACs, and they differ. *)
C2_Witness ==
  /\ lastCall.some
  /\ ReachesComparison(lastCall.val)
  /\ lastResult.val.success = FALSE
  /\ HasCmacs(lastResult.val)
  /\ lastResult.val.calculatedCmac # lastResult.val.providedCmac

(***************************************************************************)
(* C3.  In every result the error field is present if and only if          *)
(* calculatedCmac and providedCmac are absent; a CMAC mismatch yields      *)
(* success=false with both CMACs, uid and counter and no error; each of    *)
(* the four error kinds (key not configured, malformed hex, decryption     *)
(* failure, extraction failure) yields success=false with an error string  *)
(* and no CMAC, uid or counter.                                            *)
(***************************************************************************)
IsErrorKind(call) ==
  \/ ~ReachesComparison(call)
  \/ MalformedHex(call.piccDataHex)
  \/ (call.sdmKeyHex.some /\ MalformedHex(call.sdmKeyHex.val))

C3_ErrorIffNoCmacs ==
  lastCall.some =>
    /\ HasError(lastResult.val) <=> HasNoCmac(lastResult.val)
    /\ (~HasError(lastResult.val) /\ ~lastResult.val.success) =>
         (HasCmacs(lastResult.val) /\ HasUidAndCounter(lastResult.val))
    /\ IsErrorKind(lastCall.val) =>
         /\ lastResult.val.success = FALSE
         /\ HasError(lastResult.val)
         /\ HasNoCmac(lastResult.val)
         /\ HasNoUidOrCounter(lastResult.val)

(***************************************************************************)
(* C4.  Key resolution: a non-empty sdmKeyHex is the key and the           *)
(* environment variable is not consulted; with sdmKeyHex absent or empty   *)
(* the environment's value is used and the result is that of passing the   *)
(* value explicitly; the result is exactly {success:false, error:'SDM key  *)
(* not configured'} if and only if both are absent or empty, whatever the  *)
(* other two arguments are.                                                *)
(***************************************************************************)
C4_KeyResolution ==
  lastCall.some =>
    LET call == lastCall.val
    IN /\ ~Falsy(call.sdmKeyHex) =>
            \A e \in EnvInputs :
              lastResult.val =
                VerifyOutcome(call.piccDataHex, call.providedCmacHex, call.sdmKeyHex, e).ret
       /\ (Falsy(call.sdmKeyHex) /\ ~Falsy(call.envKey)) =>
            \A e \in EnvInputs :
              lastResult.val =
                VerifyOutcome(call.piccDataHex, call.providedCmacHex, call.envKey, e).ret
       /\ (lastResult.val = [success |-> FALSE, error |-> "SDM key not configured"])
            <=> (Falsy(call.sdmKeyHex) /\ Falsy(call.envKey))

(* A call without a key argument that authenticates with the key of the *)
(* environment.                                                         *)
C4_Witness ==
  /\ lastCall.some
  /\ Falsy(lastCall.val.sdmKeyHex)
  /\ ~Falsy(lastCall.val.envKey)
  /\ lastResult.val.success = TRUE

(***************************************************************************)
(* C5.  A call whose piccDataHex or sdmKeyHex is malformed hex (a          *)
(* character that is no hex digit, or an odd length) ends with             *)
(* success=false and an error string, and never reaches the CMAC           *)
(* comparison.                                                             *)
(***************************************************************************)
C5_MalformedHexIsAnError ==
  (/\ lastCall.some
   /\ \/ MalformedHex(lastCall.val.piccDataHex)
      \/ (lastCall.val.sdmKeyHex.some /\ MalformedHex(lastCall.val.sdmKeyHex.val)))
  => /\ lastResult.val.success = FALSE
     /\ HasError(lastResult.val)
     /\ HasNoCmac(lastResult.val)

(***************************************************************************)
(* C6.  verifySdmAuth runs its steps in the fixed order key resolution,    *)
(* hex parsing, decryption, extraction, session-key derivation, CMAC       *)
(* computation, comparison; the first step that fails ends the call with   *)
(* that step's own error and no later step runs: after a failure the       *)
(* block cipher is not called for key derivation or CMAC, and no step is   *)
(* run a second time.                                                      *)
(***************************************************************************)
FailingStep(msg) ==
  CASE msg = "SDM key not configured" -> "resolve"
    [] msg = "PICC data decryption failed" -> "decrypt"
    [] msg = "Failed to extract UID and counter" -> "extract"
    [] OTHER -> "none"

(* The frame has run the step and gone on after it. *)
Passed(frame, step) ==
  /\ \E i \in 1..Len(frame.steps) : frame.steps[i] = step
  /\ ~(/\ frame.result.some
       /\ HasError(frame.result.val)
       /\ frame.steps[Len(frame.steps)] = step)

CipherSteps == { "decrypt", "derive", "cmac" }
IsCipherStep(step) == step \in CipherSteps

C6_StepsInOrder ==
  \A caller \in StepCallers :
    LET frame == frames[caller]
    IN frame.pc # "idle" =>
         /\ Len(frame.steps) <= Len(StepOrder)
         /\ frame.steps = SubSeq(StepOrder, 1, Len(frame.steps))
         /\ frame.cipherCalls = SelectSeq(frame.steps, IsCipherStep)
         /\ frame.pc # "done" =>
              /\ ~frame.result.some
              /\ frame.pc = StepOrder[Len(frame.steps) + 1]
         /\ frame.pc = "done" =>
              /\ frame.result.some
              /\ IF HasError(frame.result.val)
                 THEN /\ frame.result.val.success = FALSE
                      /\ frame.steps # <<>>
                      /\ frame.steps[Len(frame.steps)] = FailingStep(frame.result.val.error)
                      /\ \A i \in 1..Len(frame.cipherCalls) :
                           frame.cipherCalls[i] \notin { "derive", "cmac" }
                 ELSE frame.steps = StepOrder
         /\ Passed(frame, "resolve") => ~Falsy(frame.keyHex)
         /\ Passed(frame, "decrypt") => frame.decrypted.some
         /\ Passed(frame, "extract") => frame.cmacData.some

(* A call ended by the decryption step: three steps run, one cipher call. *)
C6_Witness ==
  /\ frames["A"].pc = "done"
  /\ frames["A"].result.val = [success |-> FALSE, error |-> "PICC data decryption failed"]
  /\ frames["A"].steps = << "resolve", "parse", "decrypt" >>
  /\ frames["A"].cipherCalls = << "decrypt" >>

(***************************************************************************)
(* C7, as stated.  Two calls with identical (piccDataHex, providedCmacHex, *)
(* sdmKeyHex), sdmKeyHex absent included, return identical results,        *)
(* whatever calls or changes of the process environment happened between   *)
(* them.                                                                   *)
(***************************************************************************)
SameArguments(call1, call2) ==
  /\ call1.piccDataHex = call2.piccDataHex
  /\ call1.providedCmacHex = call2.providedCmacHex
  /\ call1.sdmKeyHex = call2.sdmKeyHex

C7_ResultDependsOnArgumentsOnly ==
  (/\ savedCall.some
   /\ lastCall.some
   /\ SameArguments(savedCall.val.call, lastCall.val))
  => savedCall.val.result = lastResult.val

(***************************************************************************)
(* C7, amended.  Two calls with identical (piccDataHex, providedCmacHex,   *)
(* sdmKeyHex) return identical results whatever happened between them,     *)
(* provided that, when sdmKeyHex is absent or empty, NTAG424_SDM_KEY had    *)
(* the same value at the time of both calls.                               *)
(***************************************************************************)
C7_ResultDependsOnArgumentsAndFallback ==
  (/\ savedCall.some
   /\ lastCall.some
   /\ SameArguments(savedCall.val.call, lastCall.val)
   /\ Falsy(lastCall.val.sdmKeyHex) => savedCall.val.call.envKey = lastCall.val.envKey)
  => savedCall.val.result = lastResult.val

(* Two calls with the same key argument under different environments. *)
C7_Witness ==
  /\ savedCall.some
  /\ lastCall.some
  /\ SameArguments(savedCall.val.call, lastCall.val)
  /\ ~Falsy(lastCall.val.sdmKeyHex)
  /\ ~Falsy(savedCall.val.call.envKey)
  /\ ~Falsy(lastCall.val.envKey)
  /\ savedCall.val.call.envKey # lastCall.val.envKey
  /\ lastResult.val.success = TRUE

(***************************************************************************)
(* C8.  extractUidAndCounter returns absent for every input shorter than   *)
(* 10 bytes; for length >= 11 it ignores byte 0 and returns uid = bytes    *)
(* 1..7 and counter = bytes 8..10; for length exactly 10 it returns uid =  *)
(* bytes 0..6 and counter = bytes 7..9; in both layouts uid is 7 bytes,    *)
(* counter is 3 bytes and counterInt = counter[0] + 256 * counter[1] +     *)
(* 65536 * counter[2].                                                     *)
(***************************************************************************)
IsExtractCall == fnCall.some /\ fnCall.val.fn = "extractUidAndCounter"

C8_ExtractLayouts ==
  (IsExtractCall /\ fnCall.val.decrypted.some) =>
    LET bytes == fnCall.val.decrypted.val
        ret == fnCall.val.ret
    IN /\ Len(bytes) < 10 => ret = None
       /\ Len(bytes) >= 11 =>
            /\ ret.some
            /\ ret.val.uid = SubSeq(bytes, 2, 8)
            /\ ret.val.counter = SubSeq(bytes, 9, 11)
            /\ \A b \in { 0, 4, 255 } :
                 extractUidAndCounter(Some([bytes EXCEPT ![1] = b])) = ret
       /\ Len(bytes) = 10 =>
            /\ ret.some
            /\ ret.val.uid = SubSeq(bytes, 1, 7)
            /\ ret.val.counter = SubSeq(bytes, 8, 10)
       /\ ret.some =>
            /\ Len(ret.val.uid) = 7
            /\ Len(ret.val.counter) = 3
            /\ ret.val.counterInt =
                 ret.val.counter[1] + 256 * ret.val.counter[2] + 65536 * ret.val.counter[3]

(* The 10-byte layout, with three different counter bytes. *)
C8_Witness ==
  /\ IsExtractCall
  /\ fnCall.val.decrypted.some
  /\ Len(fnCall.val.decrypted.val) = 10
  /\ fnCall.val.ret.some
  /\ fnCall.val.ret.val.counter[1] # fnCall.val.ret.val.counter[3]

(***************************************************************************)
(* C9, as stated.  decryptPiccData returns the absent result, and never    *)
(* throws, whenever piccData's length is not a positive multiple of 16     *)
(* (length 0 included) or sdmKey is not exactly 16 bytes.                  *)
(***************************************************************************)
IsDecryptCall == fnCall.some /\ fnCall.val.fn = "decryptPiccData"

C9_AbsentUnlessPositiveMultiple ==
  (/\ IsDecryptCall
   /\ \/ Len(fnCall.val.piccData) = 0
      \/ Len(fnCall.val.piccData) % 16 # 0
      \/ Len(fnCall.val.sdmKey) # 16)
  => fnCall.val.ret = None

(***************************************************************************)
(* C9, amended.  decryptPiccData returns the absent result, and never      *)
(* throws, whenever piccData's length is not a multiple of 16 or sdmKey is *)
(* not exactly 16 bytes; the empty piccData is a multiple of 16.           *)
(***************************************************************************)
C9_AbsentUnlessMultiple ==
  (/\ IsDecryptCall
   /\ \/ Len(fnCall.val.piccData) % 16 # 0
      \/ Len(fnCall.val.sdmKey) # 16)
  => fnCall.val.ret = None

(* A whole block under a key of 17 bytes. *)
C9_Witness ==
  /\ IsDecryptCall
  /\ Len(fnCall.val.piccData) = 16
  /\ Len(fnCall.val.sdmKey) = 17
  /\ fnCall.val.ret = None

(***************************************************************************)
(* C10.  decryptPiccData with a 16-byte key and a piccData whose length is *)
(* a multiple of 16, the empty input included, returns a plaintext buffer  *)
(* (not the absent result) of the length of the input, the empty buffer    *)
(* for the empty input; encrypting the plaintext gives the input back.     *)
(***************************************************************************)
C10_DecryptsWholeBlocks ==
  (/\ IsDecryptCall
   /\ Len(fnCall.val.sdmKey) = 16
   /\ Len(fnCall.val.piccData) % 16 = 0)
  => /\ fnCall.val.ret.some
     /\ Len(fnCall.val.ret.val) = Len(fnCall.val.piccData)
     /\ fnCall.val.piccData = <<>> => fnCall.val.ret.val = <<>>
     /\ CipherEcb(fnCall.val.sdmKey, fnCall.val.ret.val) = Return(fnCall.val.piccData)

(* The empty input under a 16-byte key: the empty buffer. *)
C10_Witness ==
  /\ IsDecryptCall
  /\ Len(fnCall.val.sdmKey) = 16
  /\ fnCall.val.piccData = <<>>
  /\ fnCall.val.ret = Some(<<>>)
IsCmacCall == fnCall.some /\ fnCall.val.fn = "calculateCmac"

(* Two 16-byte blocks XORed byte by byte. *)
BlockXor(a, b) == ToSeq([i \in 1..16 |-> BXor(a[i], b[i])], 16)

(* C11: in calculateCmac the last block is the final 16 data bytes XORed   *)
(* with K1 exactly when the data is non-empty and a multiple of 16 bytes    *)
(* long; otherwise it is the remaining len mod 16 bytes, one 0x80 byte and  *)
(* zero bytes up to 16, XORed with K2.                                      *)
C11_LastBlockAndSubkey ==
  IsCmacCall /\ fnCall.val.locals.some =>
    LET data == fnCall.val.data
        loc == fnCall.val.locals.val
        len == Len(data)
        rem == len % 16
    IN IF len > 0 /\ rem = 0
       THEN /\ loc.lastBlock = SubSeq(data, len - 15, len)
            /\ loc.subkey = loc.k1
            /\ loc.mLast = BlockXor(loc.lastBlock, loc.k1)
       ELSE /\ loc.lastBlock = SubSeq(data, len - rem + 1, len) \o <<128>>
                                 \o ToSeq([i \in 1..(15 - rem) |-> 0], 15 - rem)
            /\ loc.subkey = loc.k2
            /\ loc.mLast = BlockXor(loc.lastBlock, loc.k2)

C11_Witness ==
  /\ IsCmacCall /\ fnCall.val.locals.some
  /\ Len(fnCall.val.data) = 35
  /\ fnCall.val.locals.val.lastBlock[4] = 128
  /\ fnCall.val.locals.val.k1 # fnCall.val.locals.val.k2

(* X after the first count full blocks of data: 16 zero bytes for none,    *)
(* else the encryption of the previous X XORed with block number count.    *)
RECURSIVE ChainedX(_, _, _)
ChainedX(key, data, count) ==
  IF count = 0 THEN ToSeq([i \in 1..16 |-> 0], 16)
  ELSE AesEncryptBlock(key, BlockXor(ChainedX(key, data, count - 1),
                                     SubSeq(data, 16 * count - 15, 16 * count)))

(* ceil(len / 16), and 1 for empty data *)
BlocksOf(data) ==
  IF Len(data) = 0 THEN 1
  ELSE IF Len(data) % 16 = 0 THEN Len(data) \div 16 ELSE Len(data) \div 16 + 1

(* C12: with a 16-byte key calculateCmac returns Encrypt(X XOR the XORed   *)
(* last block), X being chained from 16 zero bytes over exactly the n - 1  *)
(* full blocks before the last, in order; the result is 16 bytes long.     *)
C12_ChainOverFullBlocks ==
  IsCmacCall /\ Len(fnCall.val.key) = 16 =>
    /\ ~fnCall.val.ret.threw
    /\ fnCall.val.locals.some
    /\ Len(fnCall.val.ret.val) = 16
    /\ fnCall.val.ret.val =
         AesEncryptBlock(fnCall.val.key,
                         BlockXor(ChainedX(fnCall.val.key, fnCall.val.data,
                                           BlocksOf(fnCall.val.data) - 1),
                                  fnCall.val.locals.val.mLast))

C12_Witness ==
  /\ IsCmacCall /\ Len(fnCall.val.key) = 16
  /\ Len(fnCall.val.data) = 40
  /\ ~fnCall.val.ret.threw /\ Len(fnCall.val.ret.val) = 16
  /\ fnCall.val.locals.val.n = 3

IsSubkeysCall == fnCall.some /\ fnCall.val.fn = "generateSubkeys"

(* The carry out of byte i when the big-endian numbers a and b, of the     *)
(* same length, are added byte by byte from the last byte.                 *)
RECURSIVE CarryInto(_, _, _)
CarryInto(a, b, i) ==
  IF i > Len(a) THEN 0 ELSE (a[i] + b[i] + CarryInto(a, b, i + 1)) \div 256

(* (a + b) modulo 256^n as big-endian numbers of n bytes *)
AddBytes(a, b) ==
  ToSeq([i \in 1..Len(a) |-> (a[i] + b[i] + CarryInto(a, b, i + 1)) % 256], Len(a))

(* 2 * v modulo 2^128, with 0x87 XORed into the last byte when the top bit *)
(* of v is set.                                                            *)
DoubledInField(v) ==
  LET twice == AddBytes(v, v)
  IN IF v[1] >= 128 THEN [twice EXCEPT ![16] = BXor(twice[16], 135)] ELSE twice

(* C13: generateSubkeys returns K1 = L doubled modulo 2^128, XORed with    *)
(* 0x87 in the last byte exactly when the top bit of L is set, L being the *)
(* encryption of 16 zero bytes, and K2 derived from K1 by the same rule;   *)
(* both have 16 bytes, and a repeated call with the same key returns the   *)
(* same subkeys.                                                           *)
C13_SubkeysDoubleL ==
  IsSubkeysCall /\ Len(fnCall.val.key) = 16 =>
    /\ ~fnCall.val.ret.threw
    /\ fnCall.val.l = Return(AesEncryptBlock(fnCall.val.key, ToSeq([i \in 1..16 |-> 0], 16)))
    /\ Len(fnCall.val.ret.val.k1) = 16
    /\ Len(fnCall.val.ret.val.k2) = 16
    /\ fnCall.val.ret.val.k1 = DoubledInField(fnCall.val.l.val)
    /\ fnCall.val.ret.val.k2 = DoubledInField(fnCall.val.ret.val.k1)
    /\ (savedCall.some /\ savedCall.val.key = fnCall.val.key
          => savedCall.val.ret = fnCall.val.ret)

C13_Witness ==
  /\ IsSubkeysCall /\ ~fnCall.val.ret.threw
  /\ fnCall.val.l.val[1] >= 128
  /\ fnCall.val.ret.val.k1[1] < 128
  /\ savedCall.some /\ savedCall.val.key = fnCall.val.key

IsTruncateCall == fnCall.some /\ fnCall.val.fn = "truncateCmac"

(* C14: truncateCmac of a 16-byte input returns exactly 8 bytes, output    *)
(* byte i being input byte 2 * i + 1 for every i in 0..7.                  *)
C14_OddIndexedBytes ==
  IsTruncateCall /\ Len(fnCall.val.cmac) = 16 =>
    /\ Len(fnCall.val.ret) = 8
    /\ \A i \in 0..7 : fnCall.val.ret[i + 1] = fnCall.val.cmac[2 * i + 1 + 1]

C14_Witness ==
  /\ IsTruncateCall /\ Len(fnCall.val.cmac) = 16
  /\ fnCall.val.cmac[1] = 18 /\ fnCall.val.cmac[2] = 52
  /\ fnCall.val.ret[1] = 52
  /\ fnCall.val.ret # SubSeq(fnCall.val.cmac, 1, 8)

IsVectorCall == fnCall.some /\ fnCall.val.fn = "generateSdmSessionVector"

(* An option of the call: true unless the options carry it as false. *)
OptionSet(call, name) ==
  ~call.options.some \/ name \notin DOMAIN call.options.val \/ call.options.val[name]

(* The 3-byte little-endian counter *)
CounterLE(readCtr) == << readCtr % 256, (readCtr \div 256) % 256, readCtr \div 65536 >>

(* C15: generateSdmSessionVector returns the purpose and 00 01 00 80,      *)
(* then, for purpose C3 3C, the uid and the little-endian counter whatever *)
(* the options; for purpose 3C C3, the uid only if uidMirroring and then   *)
(* the counter only if readCounter, an option left out counting as true;   *)
(* for any other purpose nothing more (6 bytes with a 2-byte purpose).     *)
C15_SessionVectorLayout ==
  IsVectorCall /\ fnCall.val.readCtr \in 0..16777215 =>
    LET call == fnCall.val
        head == call.purpose \o <<0, 1, 0, 128>>
    IN /\ ~call.ret.threw
       /\ call.purpose = <<195, 60>> =>
            call.ret.val = head \o call.uid \o CounterLE(call.readCtr)
       /\ call.purpose = <<60, 195>> =>
            call.ret.val = head \o (IF OptionSet(call, "uidMirroring") THEN call.uid ELSE <<>>)
                                \o (IF OptionSet(call, "readCounter")
                                    THEN CounterLE(call.readCtr) ELSE <<>>)
       /\ call.purpose \notin { <<195, 60>>, <<60, 195>> } =>
            /\ call.ret.val = head
            /\ Len(call.purpose) = 2 => Len(call.ret.val) = 6

C15_Witness ==
  /\ IsVectorCall
  /\ fnCall.val.purpose = <<60, 195>>
  /\ fnCall.val.options = Some([readCounter |-> FALSE])
  /\ fnCall.val.readCtr = 66051
  /\ Len(fnCall.val.uid) = 7
  /\ fnCall.val.ret = Return(<<60, 195, 0, 1, 0, 128>> \o fnCall.val.uid)

IsSessionKeyCall == fnCall.some /\ fnCall.val.fn = "generateSdmSessionKey"

(* The vector right-padded with zero bytes to 16 bytes when it is shorter. *)
PaddedTo16(vector) ==
  IF Len(vector) < 16
  THEN vector \o ToSeq([i \in 1..(16 - Len(vector)) |-> 0], 16 - Len(vector))
  ELSE vector

(* C16: generateSdmSessionKey returns calculateCmac(fileReadKey, V'), V'   *)
(* being the session vector right-padded with zero bytes to 16 bytes when  *)
(* it is shorter and the vector itself otherwise; the result is 16 bytes   *)
(* for every purpose and option combination.                               *)
C16_SessionKeyIsCmacOfPaddedVector ==
  IsSessionKeyCall /\ Len(fnCall.val.fileReadKey) = 16 /\ ~fnCall.val.sessionVector.threw =>
    /\ ~fnCall.val.ret.threw
    /\ Len(fnCall.val.ret.val) = 16
    /\ fnCall.val.ret =
         calculateCmac(fnCall.val.fileReadKey, PaddedTo16(fnCall.val.sessionVector.val))

C16_Witness ==
  /\ IsSessionKeyCall /\ Len(fnCall.val.fileReadKey) = 16
  /\ ~fnCall.val.sessionVector.threw
  /\ Len(fnCall.val.sessionVector.val) = 9
  /\ ~fnCall.val.ret.threw /\ Len(fnCall.val.ret.val) = 16

(* An earlier and a later call of generateSdmSessionKey that returned, and *)
(* that differ at most in readCtr.                                         *)
SameButForCounter ==
  /\ IsSessionKeyCall
  /\ savedCall.some /\ savedCall.val.fn = "generateSdmSessionKey"
  /\ savedCall.val.fileReadKey = fnCall.val.fileReadKey
  /\ savedCall.val.purpose = fnCall.val.purpose
  /\ savedCall.val.uid = fnCall.val.uid
  /\ savedCall.val.options = fnCall.val.options
  /\ ~savedCall.val.ret.threw /\ ~fnCall.val.ret.threw

(* The counter is part of the session vector of the call. *)
CounterInVector(call) ==
  \/ call.purpose = <<195, 60>>
  \/ call.purpose = <<60, 195>> /\ OptionSet(call, "readCounter")

(* C17 as stated: generateSdmSessionKey returns the same key for identical *)
(* arguments and, the other arguments held fixed, different keys for any   *)
(* two different readCtr values.                                           *)
C17_DifferentCounterDifferentKey ==
  SameButForCounter =>
    (savedCall.val.readCtr = fnCall.val.readCtr <=> savedCall.val.ret = fnCall.val.ret)

(* C17, amended: the same key for identical arguments; the other arguments *)
(* held fixed, different keys for two different readCtr values when the    *)
(* counter is part of a session vector of at most 16 bytes, and the same   *)
(* key for every readCtr when the counter is not part of the vector.       *)
C17_CounterInVectorDecides ==
  SameButForCounter =>
    /\ savedCall.val.readCtr = fnCall.val.readCtr => savedCall.val.ret = fnCall.val.ret
    /\ /\ savedCall.val.readCtr # fnCall.val.readCtr
       /\ CounterInVector(fnCall.val)
       /\ Len(fnCall.val.sessionVector.val) <= 16
       => savedCall.val.ret # fnCall.val.ret
    /\ ~CounterInVector(fnCall.val) => savedCall.val.ret = fnCall.val.ret

C17_Witness ==
  /\ SameButForCounter
  /\ fnCall.val.purpose = <<60, 195>>
  /\ fnCall.val.options = Some([uidMirroring |-> TRUE, readCounter |-> FALSE])
  /\ savedCall.val.readCtr = 1193046 /\ fnCall.val.readCtr = 1193047
  /\ savedCall.val.ret = fnCall.val.ret

IsXorCall == fnCall.some /\ fnCall.val.fn = "xor"

(* The XOR of two bytes, bit by bit. *)
BitXor(a, b) ==
  LET bit(k) == ((a \div (2 ^ k)) + (b \div (2 ^ k))) % 2
  IN bit(0) + 2 * bit(1) + 4 * bit(2) + 8 * bit(3)
       + 16 * bit(4) + 32 * bit(5) + 64 * bit(6) + 128 * bit(7)

(* The byte at 1-based index i, a missing byte read as zero. *)
ByteOrZero(buf, i) == IF i \in 1..Len(buf) THEN buf[i] ELSE 0

(* C18: for all byte sequences a and b, empty ones and ones of different   *)
(* lengths included, xor(a, b) has length max(len(a), len(b)) and at each  *)
(* index the XOR of the two bytes, a missing byte read as zero; xor(a, a)  *)
(* is all zero bytes of length len(a).                                     *)
C18_XorPadsTheShorter ==
  IsXorCall =>
    LET a == fnCall.val.bytes1
        b == fnCall.val.bytes2
        out == fnCall.val.ret
    IN /\ Len(out) = (IF Len(a) >= Len(b) THEN Len(a) ELSE Len(b))
       /\ \A i \in 1..Len(out) : out[i] = BitXor(ByteOrZero(a, i), ByteOrZero(b, i))
       /\ a = b => out = ToSeq([i \in 1..Len(a) |-> 0], Len(a))

C18_Witness ==
  /\ IsXorCall
  /\ fnCall.val.bytes1 = <<1, 2>>
  /\ fnCall.val.bytes2 = <<4, 5, 6>>
  /\ fnCall.val.ret = <<5, 7, 6>>

IsShiftCall == fnCall.some /\ fnCall.val.fn = "shiftLeft"

(* The value of a buffer as a big-endian integer. *)
RECURSIVE BigEndian(_)
BigEndian(buf) ==
  IF Len(buf) = 0 THEN 0
  ELSE 256 * BigEndian(SubSeq(buf, 1, Len(buf) - 1)) + buf[Len(buf)]

(* C19: for every byte sequence of length n, shiftLeft returns a sequence  *)
(* of length n whose big-endian value is twice the input's modulo 2^(8n):  *)
(* the high bit of each byte moves into the low bit of the next more       *)
(* significant byte, the high bit of byte 0 is dropped, the low bit of the *)
(* last byte is 0; the empty input gives the empty output.  The value is   *)
(* compared as an integer up to 3 bytes, where its double fits 32 bits,    *)
(* and as a byte-wise sum with carries for every length.                   *)
C19_ShiftLeftDoubles ==
  IsShiftCall =>
    LET buf == fnCall.val.buffer
        out == fnCall.val.ret
        n == Len(buf)
    IN /\ Len(out) = n
       /\ out = AddBytes(buf, buf)
       /\ n <= 3 => BigEndian(out) = (2 * BigEndian(buf)) % (256 ^ n)
       /\ \A i \in 1..n :
            /\ out[i] \div 2 = buf[i] % 128
            /\ out[i] % 2 = (IF i < n THEN buf[i + 1] \div 128 ELSE 0)
       /\ buf = <<>> => out = <<>>

C19_Witness ==
  /\ IsShiftCall
  /\ fnCall.val.buffer = <<255, 128>>
  /\ fnCall.val.ret = <<255, 0>>

(* The same character, or the two cases of one letter. *)
SameLetter(c, d) ==
  c = d \/ \E j \in 1..26 : {c, d} = {LowerLetters[j], UpperLetters[j]}

(* Two strings that differ at most in the case of their letters. *)
SameButForCase(s, t) ==
  Len(s) = Len(t) /\ \A i \in 1..Len(s) : SameLetter(s[i], t[i])

IsLowerLetter(c) == \E j \in 1..26 : LowerLetters[j] = c

UpperHexChars ==
  { "0", "1", "2", "3", "4", "5", "6", "7", "8", "9", "A", "B", "C", "D", "E", "F" }

(* C20: in every result of verifySdmAuth that carries them, providedCmac   *)
(* is the caller's provided CMAC string in upper case, and uid and         *)
(* calculatedCmac contain only the characters 0-9 and A-F; changing only   *)
(* the letter case of piccDataHex, providedCmacHex or sdmKeyHex never      *)
(* changes the result.                                                     *)
C20_LetterCaseDoesNotMatter ==
  /\ lastCall.some /\ HasCmacs(lastResult.val) =>
       /\ SameButForCase(lastResult.val.providedCmac, lastCall.val.providedCmacHex)
       /\ \A i \in 1..Len(lastResult.val.providedCmac) :
            ~IsLowerLetter(lastResult.val.providedCmac[i])
       /\ \A i \in 1..Len(lastResult.val.calculatedCmac) :
            lastResult.val.calculatedCmac[i] \in UpperHexChars
       /\ "uid" \in DOMAIN lastResult.val
       /\ \A i \in 1..Len(lastResult.val.uid) : lastResult.val.uid[i] \in UpperHexChars
  /\ (/\ lastCall.some
      /\ savedCall.some
      /\ SameButForCase(savedCall.val.call.piccDataHex, lastCall.val.piccDataHex)
      /\ SameButForCase(savedCall.val.call.providedCmacHex, lastCall.val.providedCmacHex)
      /\ savedCall.val.call.sdmKeyHex.some /\ lastCall.val.sdmKeyHex.some
      /\ SameButForCase(savedCall.val.call.sdmKeyHex.val, lastCall.val.sdmKeyHex.val))
     => savedCall.val.result = lastResult.val

(* A lower-case call that authenticates after the same call in the other   *)
(* case.                                                                   *)
C20_Witness ==
  /\ lastCall.some /\ savedCall.some
  /\ savedCall.val.call.piccDataHex = PiccTest
  /\ savedCall.val.call.providedCmacHex = CmacMatchUpper
  /\ lastCall.val.piccDataHex = PiccTestLower
  /\ lastCall.val.providedCmacHex = CmacMatchLower
  /\ savedCall.val.call.sdmKeyHex = lastCall.val.sdmKeyHex
  /\ lastResult.val.success = TRUE
  /\ lastResult.val.providedCmac = CmacMatchUpper

BothCalling == \A caller \in StepCallers : frames[caller].pc # "idle"

(* C22: when several verifySdmAuth calls with the same or different keys   *)
(* are in progress at once, under every interleaving of their steps each   *)
(* call returns the result it would return when run alone.                 *)
C22_InterleavedCallsReturnAsAlone ==
  \A caller \in StepCallers :
    frames[caller].pc = "done" =>
      /\ frames[caller].result =
           Some(VerifyOutcome(frames[caller].piccDataHex, frames[caller].providedCmacHex,
                              frames[caller].sdmKeyHex, processEnv).ret)
      /\ frames[caller].log =
           VerifyOutcome(frames[caller].piccDataHex, frames[caller].providedCmacHex,
                         frames[caller].sdmKeyHex, processEnv).log

(* Two calls with different keys, both past the derivation of their session *)
(* keys, one of them returned with success.                                *)
C22_Witness ==
  /\ frames["A"].pc = "done"
  /\ frames["A"].result.val.success = TRUE
  /\ frames["B"].pc = "compare"
  /\ frames["A"].sdmKey # frames["B"].sdmKey
  /\ frames["A"].sessionMacKey # frames["B"].sessionMacKey

(* C23: inside verifySdmAuth the 10-byte layout of extractUidAndCounter is *)
(* unreachable.  A buffer returned by decryptPiccData has a length that is *)
(* a multiple of 16: for an empty PICC input it is empty and the call ends *)
(* with 'Failed to extract UID and counter', not with the decryption       *)
(* error; every other decrypted buffer has at least 16 bytes and is parsed *)
(* with byte 0 skipped, uid = bytes 1..7 and counter = bytes 8..10.        *)
C23_TenByteLayoutUnreachable ==
  \A caller \in StepCallers :
    frames[caller].pc # "idle" /\ frames[caller].decrypted.some =>
      LET frame == frames[caller]
          plain == frame.decrypted.val
      IN /\ Len(plain) % 16 = 0
         /\ Len(plain) # 10
         /\ frame.piccData.val = <<>> <=> plain = <<>>
         /\ plain = <<>> =>
              /\ ~frame.cmacData.some
              /\ frame.pc \in { "extract", "done" }
              /\ frame.pc = "done" =>
                   frame.result.val = [success |-> FALSE,
                                       error |-> "Failed to extract UID and counter"]
         /\ plain # <<>> =>
              /\ Len(plain) >= 16
              /\ frame.pc # "extract" =>
                   /\ frame.cmacData.some
                   /\ frame.cmacData.val.uid = SubSeq(plain, 2, 8)
                   /\ frame.cmacData.val.counter = SubSeq(plain, 9, 11)

C23_Witness ==
  /\ frames["A"].pc = "done"
  /\ frames["A"].piccDataHex = <<>>
  /\ frames["A"].decrypted = Some(<<>>)
  /\ frames["A"].steps = << "resolve", "parse", "decrypt", "extract" >>
  /\ frames["A"].result.val.error = "Failed to extract UID and counter"

(* C24: verifySdmAuth returns success = true only if the provided CMAC     *)
(* string, upper-cased, is exactly 16 characters all in 0-9A-F; a provided *)
(* CMAC of another length, or with a blank or a character that is no hex   *)
(* digit, never authenticates: calculatedCmac is always 16 upper-case hex  *)
(* characters and the comparison is exact string equality.                 *)
C24_SuccessNeedsSixteenHexCharacters ==
  \A caller \in StepCallers :
    frames[caller].pc = "done" =>
      LET frame == frames[caller]
          res == frame.result.val
      IN /\ HasCmacs(res) =>
              /\ Len(res.calculatedCmac) = 16
              /\ \A i \in 1..16 : res.calculatedCmac[i] \in UpperHexChars
              /\ res.success <=> res.calculatedCmac = res.providedCmac
         /\ res.success =>
              /\ Len(frame.providedCmacHex) = 16
              /\ \A i \in 1..16 :
                   \E h \in UpperHexChars : SameLetter(frame.providedCmacHex[i], h)

(* C25: the result of verifySdmAuth does not depend on plaintext byte 0,   *)
(* on plaintext bytes 11..15 or on any PICC block after the first: two     *)
(* PICC inputs of valid length whose decryptions agree on bytes 1..10 give *)
(* identical uid, counter, calculatedCmac and success for the same key and *)
(* provided CMAC.                                                          *)
C25_OnlyBytesOneToTenMatter ==
  (/\ savedCall.some /\ lastCall.some
   /\ savedCall.val.call.sdmKeyHex = lastCall.val.sdmKeyHex
   /\ savedCall.val.call.envKey = lastCall.val.envKey
   /\ savedCall.val.call.providedCmacHex = lastCall.val.providedCmacHex
   /\ CallDecrypted(savedCall.val.call).some /\ CallDecrypted(lastCall.val).some
   /\ Len(CallDecrypted(lastCall.val).val) >= 16
   /\ Len(CallDecrypted(savedCall.val.call).val) >= 16
   /\ SubSeq(CallDecrypted(savedCall.val.call).val, 2, 11)
        = SubSeq(CallDecrypted(lastCall.val).val, 2, 11))
  => /\ HasCmacs(lastResult.val) /\ HasCmacs(savedCall.val.result)
     /\ savedCall.val.result.uid = lastResult.val.uid
     /\ savedCall.val.result.counter = lastResult.val.counter
     /\ savedCall.val.result.calculatedCmac = lastResult.val.calculatedCmac
     /\ savedCall.val.result.success = lastResult.val.success

(* The PICC data of the tests and, before it, two blocks whose first       *)
(* decrypts to another tag and other last bytes around the same uid and    *)
(* counter; both calls authenticate.                                      *)
C25_Witness ==
  /\ savedCall.some /\ lastCall.some
  /\ lastCall.val.piccDataHex = PiccTestLower
  /\ Len(savedCall.val.call.piccDataHex) = 64
  /\ CallDecrypted(savedCall.val.call).val[1] # CallDecrypted(lastCall.val).val[1]
  /\ SubSeq(CallDecrypted(savedCall.val.call).val, 2, 11)
       = SubSeq(CallDecrypted(lastCall.val).val, 2, 11)
  /\ SubSeq(CallDecrypted(savedCall.val.call).val, 12, 16)
       # SubSeq(CallDecrypted(lastCall.val).val, 12, 16)
  /\ lastResult.val.success = TRUE
  /\ savedCall.val.result.success = TRUE

(* A call of generateSdmSessionKey for the MAC purpose with a uid of seven *)
(* bytes that is mirrored.                                                 *)
MacCallWithUid(call) ==
  /\ call.fn = "generateSdmSessionKey"
  /\ call.purpose = <<60, 195>>
  /\ Len(call.uid) = 7
  /\ OptionSet(call, "uidMirroring")

(* C26: for purpose {0x3C,0xC3}, a 7-byte uid and uidMirroring=true,       *)
(* generateSdmSessionKey with readCounter=true and readCtr=0 returns the   *)
(* same key as with readCounter=false and any readCtr, since both give the *)
(* same 16-byte CMAC input.                                                *)
C26_ZeroCounterLikeNoCounter ==
  (/\ IsSessionKeyCall /\ savedCall.some
   /\ MacCallWithUid(savedCall.val) /\ MacCallWithUid(fnCall.val)
   /\ savedCall.val.fileReadKey = fnCall.val.fileReadKey
   /\ savedCall.val.uid = fnCall.val.uid
   /\ OptionSet(savedCall.val, "readCounter") /\ savedCall.val.readCtr = 0
   /\ ~OptionSet(fnCall.val, "readCounter")
   /\ ~fnCall.val.sessionVector.threw)
  => /\ ~savedCall.val.ret.threw /\ ~fnCall.val.ret.threw
     /\ savedCall.val.ret = fnCall.val.ret
     /\ Len(savedCall.val.sessionVector.val) = 16
     /\ Len(fnCall.val.sessionVector.val) = 13
     /\ PaddedTo16(fnCall.val.sessionVector.val) = savedCall.val.sessionVector.val
     /\ fnCall.val.ret = calculateCmac(fnCall.val.fileReadKey, savedCall.val.sessionVector.val)

(* A call with the counter 0 in its vector, then one with the counter      *)
(* 0x123456 left out of it: the same key.                                  *)
C26_Witness ==
  /\ IsSessionKeyCall /\ savedCall.some
  /\ MacCallWithUid(savedCall.val) /\ MacCallWithUid(fnCall.val)
  /\ savedCall.val.uid = fnCall.val.uid
  /\ savedCall.val.options = None /\ savedCall.val.readCtr = 0
  /\ fnCall.val.options = Some([uidMirroring |-> TRUE, readCounter |-> FALSE])
  /\ fnCall.val.readCtr = 1193046
  /\ savedCall.val.sessionVector.val # fnCall.val.sessionVector.val
  /\ savedCall.val.ret = fnCall.val.ret

IsExtractThenVectorCall ==
  fnCall.some /\ fnCall.val.fn = "extractUidAndCounter, generateSdmSessionVector"

(* The last three bytes of a buffer. *)
LastThree(buf) == SubSeq(buf, Len(buf) - 2, Len(buf))

(* The counter as the decrypted data hold it: bytes 8..10 of 11 bytes or   *)
(* more, bytes 7..9 of ten.                                                *)
CounterOfPlain(decrypted) ==
  IF Len(decrypted) >= 11 THEN SubSeq(decrypted, 9, 11) ELSE SubSeq(decrypted, 8, 10)

(* C27: for every 3-byte counter c, the 3 bytes that                       *)
(* generateSdmSessionVector appends for readCtr = extractUidAndCounter's   *)
(* counterInt of c are exactly c in the same order; for every readCtr in   *)
(* 0..2^24-1, decoding the appended bytes as a little-endian integer gives *)
(* readCtr back; in verifySdmAuth, where the decrypted data have 16 bytes  *)
(* or more, the session vector is 3C C3 00 01 00 80 followed by plaintext  *)
(* bytes 1..10, exactly 16 bytes.                                          *)
C27_CounterRoundTrips ==
  /\ IsExtractThenVectorCall =>
       /\ ~fnCall.val.sessionVector.threw
       /\ fnCall.val.cmacData.counter = CounterOfPlain(fnCall.val.decrypted)
       /\ LastThree(fnCall.val.sessionVector.val) = CounterOfPlain(fnCall.val.decrypted)
       /\ Len(fnCall.val.decrypted) >= 16 =>
            /\ fnCall.val.sessionVector.val
                 = <<60, 195, 0, 1, 0, 128>> \o SubSeq(fnCall.val.decrypted, 2, 11)
            /\ Len(fnCall.val.sessionVector.val) = 16
  /\ (IsVectorCall /\ fnCall.val.readCtr >= 0 /\ fnCall.val.readCtr <= 16777215) =>
       /\ ~fnCall.val.ret.threw
       /\ \E b \in { LastThree(fnCall.val.ret.val) } :
            b[1] + 256 * b[2] + 65536 * b[3] = fnCall.val.readCtr

(* Sixteen decrypted bytes whose counter reads differently from either     *)
(* end, and the vector built from them.                                    *)
C27_Witness ==
  /\ IsExtractThenVectorCall
  /\ Len(fnCall.val.decrypted) = 16
  /\ fnCall.val.cmacData.counter = <<1, 128, 255>>
  /\ fnCall.val.cmacData.counterInt = 16744449
  /\ Len(fnCall.val.sessionVector.val) = 16

====
